---------------------------- MODULE Spec2Model ----------------------------
(***************************************************************************)
(* NOTE-INSIGHT: the session coordinator (TranscriptionCoordinator.ts),    *)
(* the recording store (useRecordingStore.ts), the segment and note        *)
(* repositories (segmentsRepo / notesRepo over db.ts) and the native       *)
(* transcription session (TranscriptionSession.swift).                     *)
(*                                                                         *)
(* Spec              : final events against the session gate, interleaved  *)
(*                     with the store's and the coordinator's operations   *)
(*                     and with note inserts and deletes.                  *)
(* SpecDedupe        : final events with every segment list against the    *)
(*                     dedupe set and the unique index of segments.        *)
(* SpecPartial       : partial events against the store.                   *)
(* SpecSession       : the native partial timer and its inference blocks   *)
(*                     across recordings, as the dispatch queues allow.    *)
(* SpecTranscription : the native recording, its WAV writes and the        *)
(*                     background final transcription.                     *)
(* SpecDuration      : durationMs from the frames written, and the note    *)
(*                     row it is stored in.                                *)
(* SpecWav           : one WavFileWriter, its file kept as bytes.          *)
(* SpecRing          : one CircularBuffer, append stepped under its lock.  *)
(* SpecCascade       : the repositories: note and segment inserts, note    *)
(*                     deletes.                                            *)
(* SpecFinal         : runTranscription from the recognizer's result to    *)
(*                     the final event, and handleFinal on that event.     *)
(* SpecFallback      : runTranscription over a recognizer given per        *)
(*                     language: the auto fallback and its quality score.  *)
(* SpecShort         : one start, with its failures, and its stop.         *)
(* SpecSplit         : splitIntoSentences over every short text.           *)
(* SpecPlaceholder   : WavFileWriter constructed over an existing file.    *)
(* SpecStore         : a fixed-language transcription down to the rows.    *)
(* SpecStamps        : createSegmentsWithTimestamps over sentence lists.   *)
(* SpecPart          : one recording's partial ticks: language, lock,      *)
(*                     the emit rule, and the stop that follows.           *)
(* SpecFrames        : the WAV writes of one recording and its duration.   *)
(* SpecMigrate       : getDatabase over a database file in any state.      *)
(* SpecWait          : waitForFinal's promises against finals, timeouts    *)
(*                     and destroy.                                        *)
(* SpecLate          : tap callbacks, queued writes and stop across        *)
(*                     recordings, with the writer each block captured.    *)
(* SpecDelete        : useNotesStore.deleteNote against late finals.       *)
(***************************************************************************)
EXTENDS Integers, Sequences, FiniteSets, Bags, TLC

\* ------------------------------------------------------------------ bounds
MaxNote == 2
MaxSession == 2

\* recordings started in one run, and tap callbacks in one recording
MaxStarts == 2
MaxTaps == 4
\* the largest small frame count a stopped recording is given
MaxFrames == 40
\* append calls on one WAV writer, and samples in one of them
MaxAppends == 2
MaxBlock == 2
\* the ring buffer's capacity, the samples appended to it in all, and the
\* samples of one append(contentsOf:)
RingCapacity == 3
MaxSamples == 6
MaxChunk == 2
\* the segments of the longest note of SpecCascade
MaxSegs == 7
NoteIds == 1..MaxNote
SessionIds == 1..MaxSession
\* a null note id or session id (ids are 1..MaxNote, 1..MaxSession)
Null == 0
\* a null language lock
NoLock == "null"

VARIABLES
    \* useRecordingStore state
    store,
    \* TranscriptionCoordinatorService fields
    insertedFinalKeys, lastActiveSessionId, lastActiveNoteId,
    \* database tables: the ids of the rows of notes, the rows of segments
    notes, segments,
    \* the ids of the notes deleted so far (a note id is never used twice)
    deletedNotes,
    \* history: the last operation and what it did; the session id of the
    \* final dropped last since the store's session or the dedupe set changed
    last, staleDropped

coordVars == <<store, insertedFinalKeys, lastActiveSessionId, lastActiveNoteId,
               notes, segments, deletedNotes, last, staleDropped>>

\* ----- the native TranscriptionSession (TranscriptionSession.swift)
VARIABLES
    \* the fields of the session object
    session,
    \* the partial timers created so far: whether the source is still armed
    \* and where its event handler stands
    timers,
    \* partial inference blocks dispatched and not yet past their guard, and
    \* blocks past it and not yet returned
    queuedBlocks, runningBlocks,
    \* stopRecording on the module's method queue: "idle" or "waiting", and
    \* its languageLock argument
    stopPc, stopLock,
    \* blocks on audioProcessingQueue not yet run
    pendingWrites,
    \* the runTranscription calls scheduled by stopRecording, in order
    jobs

sessVars == <<session, timers, queuedBlocks, runningBlocks, stopPc, stopLock,
              pendingWrites, jobs>>

\* ----- single objects and functions taken on their own
VARIABLES
    \* stopRecording's duration and the note row it ends in
    calc,
    \* a WavFileWriter: its file's bytes, the file handle's offset, its
    \* dataSize, and the samples handed to append so far
    wav,
    \* a CircularBuffer, the thread inside its lock, and what its callers
    \* last got back
    ring,
    \* one final transcription: what stopRecording scheduled, what the
    \* recognizer returns, and the final event built from them
    fin,
    \* one recording's partial ticks: the language lock, the text emitted
    \* last, the inference in flight and what the ticks did so far
    part,
    \* the database file across openings: user_version, the tables present
    db,
    \* the promises waitForFinal returned and pendingFinalResolvers
    waits,
    \* the session's writers, the tap callbacks in flight and the serial queue
    rec,
    \* useNotesStore: the notes listed and the deleteNote that awaits its files
    notesStore

objVars == <<calc, wav, ring, fin, part, db, waits, rec, notesStore>>
\* the object variables an action on one object leaves alone
exceptCalc == <<wav, ring, fin, part, db, waits, rec, notesStore>>
exceptWav == <<calc, ring, fin, part, db, waits, rec, notesStore>>
exceptRing == <<calc, wav, fin, part, db, waits, rec, notesStore>>
exceptPart == <<calc, wav, ring, fin, db, waits, rec, notesStore>>
exceptDb == <<calc, wav, ring, fin, part, waits, rec, notesStore>>
exceptWaits == <<calc, wav, ring, fin, part, db, rec, notesStore>>
exceptRec == <<calc, wav, ring, fin, part, db, waits, notesStore>>
exceptNotesStore == <<calc, wav, ring, fin, part, db, waits, rec>>
exceptFin == <<calc, wav, ring, part, db, waits, rec, notesStore>>

vars == <<coordVars, sessVars, objVars>>

\* ---------------------------------------------------------- event payloads
\* segments[i] = {startMs, endMs, text, lang} (TranscriptionNative.ts)
SegA == [startMs |-> 0, endMs |-> 1, text |-> "a", lang |-> "en"]
\* same (startMs, endMs) as SegA, another text
SegB == [startMs |-> 0, endMs |-> 1, text |-> "b", lang |-> "en"]
SegC == [startMs |-> 1, endMs |-> 2, text |-> "c", lang |-> "tr"]

\* the segment lists of the final events of Spec, of SpecDedupe and of
\* SpecPartial, and the payloads of the partial events
GateSegLists == {<<>>, <<SegA>>}
DedupeSegLists == {<<>>, <<SegA>>, <<SegB>>, <<SegA, SegC>>, <<SegA, SegB>>}
OneSegList == {<<SegA>>}
\* the notes of the events of SpecDedupe and SpecPartial
OneNote == {MaxNote}
PartialSegLists == {<<>>, <<SegA>>, <<SegA, SegC>>}
LanguageLocks == {NoLock, "auto_tr"}

AsrFinalEvent(noteIds, segLists) ==
    [noteId : noteIds, sessionId : SessionIds, segments : segLists]
AsrPartialEvent ==
    [noteId : NoteIds, sessionId : SessionIds, segments : PartialSegLists,
     languageLock : LanguageLocks]

\* ------------------------------------------------------------------ store
\* the session id the store holds when no session is live
initialSessionId == Null

initialState ==
    [status |-> "idle", noteId |-> Null, sessionId |-> initialSessionId,
     languageLock |-> NoLock, partialSegments |-> <<>>]

\* ---------------------------------------------------------------- database
\* the row insertSegments binds for one segment: isFinal ? 1 : 0
SegmentRow(noteId, seg) ==
    [noteId |-> noteId, startMs |-> seg.startMs, endMs |-> seg.endMs,
     text |-> seg.text, isFinal |-> IF seg.isFinal THEN 1 ELSE 0,
     lang |-> seg.lang]

\* idx_segments_unique ON segments(noteId, startMs, endMs)
UniqueKey(row) == <<row.noteId, row.startMs, row.endMs>>

KeyTaken(tbl, row) ==
    \E r \in BagToSet(tbl) : UniqueKey(r) = UniqueKey(row)

\* a table without idx_segments_unique: every insert adds a row
InsertPlain(tbl, row) == tbl (+) SetToBag({row})

\* a unique index that also spans the text column
InsertOrIgnoreWholeRow(tbl, row) ==
    IF row \in BagToSet(tbl) THEN tbl ELSE tbl (+) SetToBag({row})

\* INSERT OR IGNORE of one row: a row whose unique key is taken is skipped
InsertOrIgnore(tbl, row) ==
    IF KeyTaken(tbl, row) THEN tbl ELSE tbl (+) SetToBag({row})

\* a connection on which PRAGMA foreign_keys was left off
ForeignKeysOff(ns, noteId) == FALSE

\* FOREIGN KEY (noteId) REFERENCES notes(id), with PRAGMA foreign_keys = ON:
\* the insert of a row for an absent note fails (OR IGNORE does not cover it)
ForeignKeyFails(ns, noteId) == noteId \notin ns

RECURSIVE InsertRows(_, _, _)
InsertRows(tbl, noteId, segs) ==
    IF segs = <<>> THEN tbl
    ELSE InsertRows(InsertOrIgnore(tbl, SegmentRow(noteId, Head(segs))),
                    noteId, Tail(segs))

\* insertSegments: one runSQL per segment; the first failing runSQL throws
insertSegments(tbl, ns, noteId, segs) ==
    IF segs # <<>> /\ ForeignKeyFails(ns, noteId) THEN tbl
    ELSE InsertRows(tbl, noteId, segs)

insertSegmentsThrows(ns, noteId, segs) ==
    segs # <<>> /\ ForeignKeyFails(ns, noteId)

RowsOfNote(tbl, n) == {r \in BagToSet(tbl) : r.noteId = n}

\* the delete with foreign keys off: the segments stay
NoCascade(tbl, n) == tbl

\* DELETE FROM notes WHERE id = ? with ON DELETE CASCADE on segments.noteId
CascadeDelete(tbl, n) ==
    [r \in {x \in BagToSet(tbl) : x.noteId # n} |-> tbl[r]]

\* ------------------------------------------------------------ coordinator
\* `${event.noteId}:${seg.startMs}:${seg.endMs}:${seg.text}`: the fields are
\* joined by ':' and only the last one can hold a ':', so the string
\* determines the four fields
FinalKey(noteId, seg) == <<noteId, seg.startMs, seg.endMs, seg.text>>

\* handleFinal without the session gate (the coordinator before sessionId)
FinalGateNone(st, lastSid, lastNid, ev) == TRUE

\* a gate that looks at lastActive* only and never at the store
FinalGateLastActiveOnly(st, lastSid, lastNid, ev) ==
    ev.sessionId = lastSid /\ ev.noteId = lastNid

\* the session gate of handleFinal
FinalGate(st, lastSid, lastNid, ev) ==
    IF st.sessionId # Null
    THEN st.sessionId = ev.sessionId
    ELSE ev.sessionId = lastSid /\ ev.noteId = lastNid

\* handlePartial gated by noteId only (the coordinator before sessionId)
PartialGateNoteOnly(st, ev) == st.noteId = ev.noteId

\* the session gate of handlePartial
PartialGate(st, ev) ==
    /\ st.sessionId # Null
    /\ st.sessionId = ev.sessionId
    /\ st.noteId = ev.noteId

\* a final segment pushed without isFinal: true
FinalSegmentNotFinal(seg) ==
    [startMs |-> seg.startMs, endMs |-> seg.endMs, text |-> seg.text,
     isFinal |-> FALSE, lang |-> seg.lang]

\* the segment handleFinal pushes to segmentsToInsert
FinalSegment(seg) ==
    [startMs |-> seg.startMs, endMs |-> seg.endMs, text |-> seg.text,
     isFinal |-> TRUE, lang |-> seg.lang]

\* the segment handlePartial puts in the store
PartialSegment(noteId, seg) ==
    [noteId |-> noteId, startMs |-> seg.startMs, endMs |-> seg.endMs,
     text |-> seg.text, isFinal |-> FALSE, lang |-> seg.lang]

\* a dedupe loop that forgets to add the key it has just seen
RECURSIVE DedupeNoAdd(_, _, _, _)
DedupeNoAdd(keys, noteId, segs, acc) ==
    IF segs = <<>> THEN <<keys, acc>>
    ELSE IF FinalKey(noteId, Head(segs)) \in keys
         THEN DedupeNoAdd(keys, noteId, Tail(segs), acc)
         ELSE DedupeNoAdd(keys, noteId, Tail(segs),
                          Append(acc, FinalSegment(Head(segs))))

\* the dedupe loop of handleFinal: <<keys after the loop, segmentsToInsert>>
RECURSIVE Dedupe(_, _, _, _)
Dedupe(keys, noteId, segs, acc) ==
    IF segs = <<>> THEN <<keys, acc>>
    ELSE LET k == FinalKey(noteId, Head(segs)) IN
         IF k \in keys
         THEN Dedupe(keys, noteId, Tail(segs), acc)
         ELSE Dedupe(keys \cup {k}, noteId, Tail(segs),
                     Append(acc, FinalSegment(Head(segs))))

\* an insert step that never clears lastActive*
LastActiveKept(cur, segmentsToInsert, threw) == cur

\* lastActiveSessionId / lastActiveNoteId after the insert step of handleFinal:
\* cleared when segmentsToInsert is not empty and insertSegments returned
LastActiveAfter(cur, segmentsToInsert, threw) ==
    IF segmentsToInsert # <<>> /\ ~threw THEN Null ELSE cur

NoOp == [op |-> "none", noteId |-> Null, sessionId |-> Null, segments |-> <<>>,
         accepted |-> FALSE, inserted |-> 0, threw |-> FALSE]

initialSession ==
    [isRecording |-> FALSE, noteId |-> Null, sessionId |-> Null,
     isPartialInferenceRunning |-> FALSE, partialTimer |-> Null,
     audioEngine |-> FALSE, wavWriter |-> FALSE, hasBuffer |-> FALSE,
     pcmCount |-> 0, taps |-> 0, totalFramesWritten |-> 0,
     isWhisperModelLoaded |-> FALSE, modelLoading |-> TRUE, starts |-> 0]

NoTimer == [armed |-> FALSE, pc |-> "none"]

InitCoord ==
    /\ store = initialState
    /\ insertedFinalKeys = {}
    /\ lastActiveSessionId = Null
    /\ lastActiveNoteId = Null
    /\ notes = {}
    /\ segments = EmptyBag
    /\ deletedNotes = {}
    /\ last = NoOp
    /\ staleDropped = Null

InitSession ==
    /\ session = initialSession
    /\ timers = [t \in 1..MaxStarts |-> NoTimer]
    /\ queuedBlocks = 0
    /\ runningBlocks = 0
    /\ stopPc = "idle"
    /\ stopLock = "auto"
    /\ pendingWrites = 0
    /\ jobs = <<>>

\* nothing is being computed
NoCalc == [pc |-> "none"]

\* no WAV writer
NoWav == [state |-> "none"]

\* no ring buffer
NoRing == [pc |-> "none"]

\* no final transcription
NoFin == [pc |-> "none"]

NoPart == [pc |-> "none"]

NoDb == [pc |-> "none"]

\* no promise was returned yet, pendingFinalResolvers is empty and the
\* coordinator is subscribed to the native events
NoWaits == [promises |-> <<>>, pending |-> {}, subscribed |-> TRUE]

NoRec == [pc |-> "none"]

\* no note is listed and no deleteNote is under way
NoNotesStore == [notes |-> {}, deleting |-> Null]

InitObj ==
    /\ notesStore = NoNotesStore
    /\ rec = NoRec
    /\ waits = NoWaits
    /\ db = NoDb
    /\ part = NoPart
    /\ calc = NoCalc
    /\ wav = NoWav
    /\ ring = NoRing
    /\ fin = NoFin

Init == InitCoord /\ InitSession /\ InitObj

\* ----- store operations
setNoteId(n) ==
    /\ store' = [store EXCEPT !.noteId = n]
    /\ UNCHANGED <<sessVars, objVars>>
    /\ last' = NoOp
    /\ UNCHANGED <<insertedFinalKeys, lastActiveSessionId, lastActiveNoteId,
                   notes, segments, deletedNotes, staleDropped>>

setSessionId(s) ==
    /\ store' = [store EXCEPT !.sessionId = s]
    /\ UNCHANGED <<sessVars, objVars>>
    /\ last' = NoOp
    /\ staleDropped' = Null
    /\ UNCHANGED <<insertedFinalKeys, lastActiveSessionId, lastActiveNoteId,
                   notes, segments, deletedNotes>>

start ==
    /\ store' = [store EXCEPT !.status = "recording", !.partialSegments = <<>>,
                              !.languageLock = NoLock]
    /\ UNCHANGED <<sessVars, objVars>>
    /\ last' = NoOp
    /\ UNCHANGED <<insertedFinalKeys, lastActiveSessionId, lastActiveNoteId,
                   notes, segments, deletedNotes, staleDropped>>

stop ==
    /\ store' = [store EXCEPT !.status = "stopping"]
    /\ UNCHANGED <<sessVars, objVars>>
    /\ last' = NoOp
    /\ UNCHANGED <<insertedFinalKeys, lastActiveSessionId, lastActiveNoteId,
                   notes, segments, deletedNotes, staleDropped>>

reset ==
    /\ store' = initialState
    /\ UNCHANGED <<sessVars, objVars>>
    /\ last' = NoOp
    /\ staleDropped' = Null
    /\ UNCHANGED <<insertedFinalKeys, lastActiveSessionId, lastActiveNoteId,
                   notes, segments, deletedNotes>>

\* ----- coordinator operations
resetSession ==
    /\ insertedFinalKeys' = {}
    /\ store' = [store EXCEPT !.partialSegments = <<>>]
    /\ UNCHANGED <<sessVars, objVars>>
    /\ last' = NoOp
    /\ staleDropped' = Null
    /\ UNCHANGED <<lastActiveSessionId, lastActiveNoteId, notes, segments,
                   deletedNotes>>

beginSession(n, s) ==
    /\ lastActiveSessionId' = s
    /\ lastActiveNoteId' = n
    /\ UNCHANGED <<sessVars, objVars>>
    /\ last' = NoOp
    /\ UNCHANGED <<store, insertedFinalKeys, notes, segments, deletedNotes, staleDropped>>

handlePartial(ev) ==
    /\ IF PartialGate(store, ev)
       THEN store' = [store EXCEPT
                        !.languageLock =
                            IF ev.languageLock # NoLock /\ store.languageLock = NoLock
                            THEN ev.languageLock ELSE @,
                        !.partialSegments =
                            [i \in 1..Len(ev.segments) |->
                                PartialSegment(ev.noteId, ev.segments[i])]]
       ELSE store' = store
    /\ UNCHANGED <<sessVars, objVars>>
    /\ last' = [op |-> "partial", noteId |-> ev.noteId, sessionId |-> ev.sessionId,
                segments |-> ev.segments, accepted |-> PartialGate(store, ev),
                inserted |-> 0, threw |-> FALSE]
    /\ UNCHANGED <<insertedFinalKeys, lastActiveSessionId, lastActiveNoteId,
                   notes, segments, deletedNotes, staleDropped>>

\* `${noteId}:${sessionId}`: the ids are UUIDs (generateUUID), which hold no
\* ':', so the string determines the pair
ResolverKey(noteId, sessionId) == <<noteId, sessionId>>

\* the index of the promise whose resolver pendingFinalResolvers holds under
\* key, or 0
PendingAt(w, key) ==
    IF \E e \in w.pending : e[1] = key
    THEN (CHOOSE e \in w.pending : e[1] = key)[2]
    ELSE 0

\* a handleFinal that leaves the resolver in the map after resolving it
resolveAndKeep(w, ev) ==
    LET key == ResolverKey(ev.noteId, ev.sessionId)
        i == PendingAt(w, key)
    IN  IF i = 0 THEN w
        ELSE [w EXCEPT !.promises[i].timer = FALSE,
                       !.promises[i].calls = Append(@, "final"),
                       !.promises[i].event = <<ev>>]

\* handleFinal, lines 153-162: the resolver pending under the event's key has
\* its timeout cleared, is deleted from the map and resolved with the event
resolvePending(w, ev) ==
    LET key == ResolverKey(ev.noteId, ev.sessionId)
        i == PendingAt(w, key)
    IN  IF i = 0 THEN w
        ELSE [w EXCEPT !.pending = @ \ {<<key, i>>},
                       !.promises[i].timer = FALSE,
                       !.promises[i].calls = Append(@, "final"),
                       !.promises[i].event = <<ev>>]

handleFinal(ev) ==
    LET pass == FinalGate(store, lastActiveSessionId, lastActiveNoteId, ev)
        dd == Dedupe(insertedFinalKeys, ev.noteId, ev.segments, <<>>)
        segmentsToInsert == dd[2]
        threw == insertSegmentsThrows(notes, ev.noteId, segmentsToInsert)
    IN
    /\ IF ~pass
       THEN /\ UNCHANGED <<insertedFinalKeys, lastActiveSessionId,
                           lastActiveNoteId, segments>>
            /\ staleDropped' = ev.sessionId
       ELSE /\ insertedFinalKeys' = dd[1]
            /\ segments' = insertSegments(segments, notes, ev.noteId, segmentsToInsert)
            /\ lastActiveSessionId' =
                    LastActiveAfter(lastActiveSessionId, segmentsToInsert, threw)
            /\ lastActiveNoteId' =
                    LastActiveAfter(lastActiveNoteId, segmentsToInsert, threw)
            /\ UNCHANGED staleDropped
    /\ waits' = IF pass THEN resolvePending(waits, ev) ELSE waits
    /\ UNCHANGED <<sessVars, exceptWaits>>
    /\ last' = [op |-> "final", noteId |-> ev.noteId, sessionId |-> ev.sessionId,
                segments |-> ev.segments, accepted |-> pass,
                inserted |-> BagCardinality(segments') - BagCardinality(segments),
                threw |-> pass /\ threw]
    /\ UNCHANGED <<store, notes, deletedNotes>>

\* ----- notes repository
insertNote(n) ==
    /\ n \notin notes \cup deletedNotes
    /\ notes' = notes \cup {n}
    /\ UNCHANGED <<sessVars, objVars>>
    /\ last' = NoOp
    /\ UNCHANGED <<store, insertedFinalKeys, lastActiveSessionId, lastActiveNoteId,
                   segments, deletedNotes, staleDropped>>

\* what deleteNote does to the two tables
deleteNoteRows(n) ==
    /\ n \in notes
    /\ notes' = notes \ {n}
    /\ deletedNotes' = deletedNotes \cup {n}
    /\ segments' = CascadeDelete(segments, n)
    /\ UNCHANGED sessVars
    /\ UNCHANGED <<store, insertedFinalKeys, lastActiveSessionId, lastActiveNoteId,
                   staleDropped>>

deleteNote(n) ==
    /\ deleteNoteRows(n)
    /\ last' = NoOp
    /\ UNCHANGED objVars

\* the notes a recording was ever started for: RecordScreen inserts the note
\* row before it starts the native recording, so every event names one
CreatedNotes == notes \cup deletedNotes

\* ------------------------------------------------------------------ Spec
\* the session gate of handleFinal: the store and coordinator operations it
\* depends on (it never reads the store's noteId), finals with at most one
\* segment
Next ==
    \/ \E s \in SessionIds : setSessionId(s)
    \/ start
    \/ stop
    \/ reset
    \/ resetSession
    \/ \E n \in NoteIds, s \in SessionIds : beginSession(n, s)
    \/ \E ev \in AsrFinalEvent(NoteIds, GateSegLists) :
            ev.noteId \in CreatedNotes /\ handleFinal(ev)
    \/ \E n \in NoteIds : insertNote(n)
    \/ \E n \in NoteIds : deleteNote(n)

Spec == Init /\ [][Next]_vars

\* ------------------------------------------------------------ SpecDedupe
\* the dedupe set against the unique index: finals with every segment list,
\* the store's session set and reset only
NextDedupe ==
    \/ \E s \in SessionIds : setSessionId(s)
    \/ reset
    \/ resetSession
    \/ \E n \in OneNote, s \in SessionIds : beginSession(n, s)
    \/ \E ev \in AsrFinalEvent(OneNote, DedupeSegLists) :
            ev.noteId \in CreatedNotes /\ handleFinal(ev)
    \/ \E n \in OneNote : insertNote(n)
    \/ \E n \in OneNote : deleteNote(n)

SpecDedupe == Init /\ [][NextDedupe]_vars

\* ----------------------------------------------------------- SpecPartial
\* partial events against the store; finals only for a live session
NextPartial ==
    \/ \E n \in NoteIds : setNoteId(n)
    \/ \E s \in SessionIds : setSessionId(s)
    \/ start
    \/ stop
    \/ reset
    \/ resetSession
    \/ \E ev \in AsrPartialEvent :
            ev.noteId \in CreatedNotes /\ handlePartial(ev)
    \/ \E ev \in AsrFinalEvent(OneNote, OneSegList) :
            ev.noteId \in CreatedNotes /\ handleFinal(ev)
    \/ \E n \in OneNote : insertNote(n)

SpecPartial == Init /\ [][NextPartial]_vars

\* ----------------------------------------------------------- SpecSession
\* The native TranscriptionSession. Its methods run on several threads with
\* no lock on the session's fields: startRecording and stopRecording on the
\* module's serial method queue, each partial timer's event handler and each
\* partial inference block on the global concurrent queue, the tap on the
\* audio thread, the WAV writes on audioProcessingQueue. A step below is a
\* stretch of one of them between two accesses to the shared fields.

\* tap buffer size, the samples a partial needs, the sample rate
bufferSize == 4096
minSamples == 16000
sampleRate == 16000
rollingWindowSec == 6

LanguageModes == {"auto", "tr"}

\* what one WhisperEngine run and the auto fallback after it can return
WhisperResults == [error : BOOLEAN, text : {"", "t"}, fallbackText : {"", "t"}]

Min(a, b) == IF a < b THEN a ELSE b

\* the frame counts below 16400 for which the double product
\* Double(frames) / 16000.0 * 1000.0 (IEEE 754 binary64, round to nearest)
\* comes out just below the whole number frames / 16: 16016, 16048, ...,
\* 16368. Below 16016 there is none, and no multiple of 4096 below 2000000
\* is one.
RoundsBelow == {f \in 16016..16368 : f % 32 = 16}

\* a duration that rounds up to the next millisecond
DurationMsCeil(frames) == (frames * 1000 + sampleRate - 1) \div sampleRate

\* Int(Double(totalFramesWritten) / 16000.0 * 1000.0): Int() truncates
DurationMs(frames) ==
    IF frames \in RoundsBelow
    THEN (frames * 1000) \div sampleRate - 1
    ELSE (frames * 1000) \div sampleRate

\* loadWhisperModel's block: the model loads or does not
loadWhisperModel(success) ==
    /\ session.modelLoading
    /\ session' = [session EXCEPT !.modelLoading = FALSE,
                                  !.isWhisperModelLoaded = success]
    /\ UNCHANGED <<timers, queuedBlocks, runningBlocks, stopPc, stopLock,
                   pendingWrites, jobs>>
    /\ UNCHANGED <<coordVars, objVars>>

\* a failed start that leaves isRecording as startRecording set it
isRecordingKept == TRUE

\* isRecording = false on the failure paths of startRecording
isRecordingAfterFailure == FALSE

\* startRecording with setupAudioEngine and startPartialTimer. outcome:
\* "denied" leaves at one of the guards before the WAV writer exists,
\* "engineFailed" at engine.start(), "ok" runs to the end.
startRecording(n, s, outcome) ==
    /\ stopPc = "idle"
    /\ ~session.isRecording
    /\ session.starts < MaxStarts
    /\ LET t == session.starts + 1 IN
       CASE outcome = "denied" ->
              /\ session' = [session EXCEPT !.noteId = n, !.sessionId = s,
                                            !.isRecording = isRecordingAfterFailure,
                                            !.starts = t]
              /\ UNCHANGED timers
         [] outcome = "wavFailed" ->
              /\ session' = [session EXCEPT !.noteId = n, !.sessionId = s,
                                            !.isRecording = isRecordingAfterFailure,
                                            !.wavWriter = FALSE,
                                            !.starts = t]
              /\ UNCHANGED timers
         [] outcome = "engineFailed" ->
              /\ session' = [session EXCEPT !.noteId = n, !.sessionId = s,
                                            !.isRecording = FALSE,
                                            !.wavWriter = TRUE,
                                            !.hasBuffer = TRUE,
                                            !.pcmCount = 0, !.taps = 0,
                                            !.totalFramesWritten = 0,
                                            !.starts = t]
              /\ UNCHANGED timers
         [] OTHER ->
              /\ session' = [session EXCEPT !.noteId = n, !.sessionId = s,
                                            !.isRecording = TRUE,
                                            !.wavWriter = TRUE,
                                            !.hasBuffer = TRUE,
                                            !.pcmCount = 0, !.taps = 0,
                                            !.totalFramesWritten = 0,
                                            !.audioEngine = TRUE,
                                            !.partialTimer = t,
                                            !.starts = t]
              /\ timers' = [u \in 1..MaxStarts |->
                              IF u = t THEN [armed |-> TRUE, pc |-> "idle"]
                              ELSE IF u = session.partialTimer
                                   THEN [timers[u] EXCEPT !.armed = FALSE]
                                   ELSE timers[u]]
    /\ UNCHANGED <<queuedBlocks, runningBlocks, stopPc, stopLock,
                   pendingWrites, jobs>>
    /\ UNCHANGED <<coordVars, objVars>>

\* the tap callback: one buffer appended to pcmBuffer, its WAV write queued
tap ==
    /\ session.audioEngine
    /\ session.isRecording
    /\ session.taps < MaxTaps
    /\ session' = [session EXCEPT
                     !.pcmCount = Min(sampleRate * rollingWindowSec, @ + bufferSize),
                     !.taps = @ + 1]
    /\ pendingWrites' = pendingWrites + 1
    /\ UNCHANGED <<timers, queuedBlocks, runningBlocks, stopPc, stopLock, jobs>>
    /\ UNCHANGED <<coordVars, objVars>>

\* a block of audioProcessingQueue: the write is skipped once isRecording is
\* false
wavWrite ==
    /\ pendingWrites > 0
    /\ pendingWrites' = pendingWrites - 1
    /\ session' = [session EXCEPT
                     !.totalFramesWritten =
                        IF session.isRecording THEN @ + bufferSize ELSE @]
    /\ UNCHANGED <<timers, queuedBlocks, runningBlocks, stopPc, stopLock, jobs>>
    /\ UNCHANGED <<coordVars, objVars>>

\* processPartialBuffer, line 319: the handler of timer t reads isRecording
\* and isPartialInferenceRunning. A cancelled source starts no new handler.
TickCheck(t) ==
    /\ timers[t].armed
    /\ timers[t].pc = "idle"
    /\ session.isRecording
    /\ ~session.isPartialInferenceRunning
    /\ timers' = [timers EXCEPT ![t].pc = "checked"]
    /\ UNCHANGED <<session, queuedBlocks, runningBlocks, stopPc, stopLock,
                   pendingWrites, jobs>>
    /\ UNCHANGED <<coordVars, objVars>>

\* processPartialBuffer, lines 320-332: the handler that passed line 319
\* reads the buffer's count, sets the flag and dispatches the inference
\* block. Cancelling the source does not stop a handler that is running.
TickDispatch(t) ==
    /\ timers[t].pc = "checked"
    /\ timers' = [timers EXCEPT ![t].pc = "idle"]
    /\ IF session.hasBuffer /\ session.pcmCount >= minSamples
       THEN /\ session' = [session EXCEPT !.isPartialInferenceRunning = TRUE]
            /\ queuedBlocks' = queuedBlocks + 1
       ELSE UNCHANGED <<session, queuedBlocks>>
    /\ UNCHANGED <<runningBlocks, stopPc, stopLock, pendingWrites, jobs>>
    /\ UNCHANGED <<coordVars, objVars>>

\* the inference block, lines 333-334: it goes on when isRecording is true
\* and otherwise returns, which clears the flag (defer)
BlockStart ==
    /\ queuedBlocks > 0
    /\ queuedBlocks' = queuedBlocks - 1
    /\ IF session.isRecording
       THEN /\ runningBlocks' = runningBlocks + 1
            /\ UNCHANGED session
       ELSE /\ session' = [session EXCEPT !.isPartialInferenceRunning = FALSE]
            /\ UNCHANGED runningBlocks
    /\ UNCHANGED <<timers, stopPc, stopLock, pendingWrites, jobs>>
    /\ UNCHANGED <<coordVars, objVars>>

\* the inference block, lines 336-433: the snapshot holds at least
\* minSamples (the count of a buffer never falls), Whisper runs, the block
\* returns and clears the flag (defer)
BlockEnd ==
    /\ runningBlocks > 0
    /\ runningBlocks' = runningBlocks - 1
    /\ session' = [session EXCEPT !.isPartialInferenceRunning = FALSE]
    /\ UNCHANGED <<timers, queuedBlocks, stopPc, stopLock, pendingWrites, jobs>>
    /\ UNCHANGED <<coordVars, objVars>>

\* stopRecording, lines 462-467: isRecording cleared, the timer cancelled
StopBegin(lock) ==
    /\ stopPc = "idle"
    /\ session.isRecording
    /\ session.noteId # Null
    /\ session' = [session EXCEPT !.isRecording = FALSE, !.partialTimer = Null]
    /\ timers' = [u \in 1..MaxStarts |->
                    IF u = session.partialTimer
                    THEN [timers[u] EXCEPT !.armed = FALSE]
                    ELSE timers[u]]
    /\ stopPc' = "waiting"
    /\ stopLock' = lock
    /\ UNCHANGED <<queuedBlocks, runningBlocks, pendingWrites, jobs>>
    /\ UNCHANGED <<coordVars, objVars>>

\* currentStatus: the only two values the session reports
currentStatus(s) == IF s.isRecording THEN "recording" ELSE "idle"

\* the state event emitState() hands to the delegate
emitState(s) ==
    [status |-> currentStatus(s), noteId |-> s.noteId, sessionId |-> s.sessionId]

\* stopRecording, lines 470-515: the wait for the flag ends when it is false
\* or after 5 s; the engine is stopped, audioProcessingQueue drained, the
\* WAV finished, durationMs computed, the state event emitted (kept in the
\* job as state), runTranscription scheduled
StopFinish(timedOut) ==
    /\ stopPc = "waiting"
    /\ ~session.isPartialInferenceRunning \/ timedOut
    /\ session.wavWriter
    /\ session' = [session EXCEPT !.audioEngine = FALSE, !.wavWriter = FALSE]
    /\ pendingWrites' = 0
    /\ jobs' = Append(jobs, [noteId |-> session.noteId,
                             durationMs |-> DurationMs(session.totalFramesWritten),
                             languageMode |-> stopLock,
                             pc |-> "scheduled",
                             final |-> "none",
                             sessionId |-> Null,
                             emitted |-> <<>>,
                             state |-> emitState(session)])
    /\ stopPc' = "idle"
    /\ UNCHANGED <<timers, queuedBlocks, runningBlocks, stopLock>>
    /\ UNCHANGED <<coordVars, objVars>>

\* the text runTranscription ends with: in auto mode an empty text is
\* replaced by what the forced runs return
TextAfterFallback(languageMode, res) ==
    IF languageMode = "auto" /\ res.text = "" THEN res.fallbackText ELSE res.text

\* what runTranscription emits: "none", "error" (segments [] and an error)
\* or "segments"
FinalOf(job, modelLoaded, res) ==
    IF job.noteId = Null \/ job.durationMs <= 0 THEN "none"
    ELSE IF ~modelLoaded THEN "error"
    ELSE IF res.error THEN "error"
    ELSE IF TextAfterFallback(job.languageMode, res) = "" THEN "error"
    ELSE "segments"

\* the onAsrFinal events of a runTranscription whose error paths do not
\* return after emitTranscriptionError
EmittedWithoutReturn(job, modelLoaded, res) ==
    IF job.noteId = Null \/ job.durationMs <= 0 THEN <<>>
    ELSE (IF ~modelLoaded THEN <<"error">> ELSE <<>>)
         \o (IF res.error THEN <<"error">> ELSE <<>>)
         \o (IF TextAfterFallback(job.languageMode, res) = "" THEN <<"error">> ELSE <<>>)
         \o <<"segments">>

\* the onAsrFinal events one runTranscription hands to the delegate, in
\* order: each guard emits its error event and returns, and the end of the
\* function emits the event with the segments
EmittedBy(job, modelLoaded, res) ==
    IF job.noteId = Null \/ job.durationMs <= 0 THEN <<>>
    ELSE IF ~modelLoaded THEN <<"error">>
    ELSE IF res.error THEN <<"error">>
    ELSE IF TextAfterFallback(job.languageMode, res) = "" THEN <<"error">>
    ELSE <<"segments">>

\* runTranscription of the i-th scheduled job; the event carries the
\* session's sessionId as it is when the event is built
runTranscription(i, res) ==
    /\ i \in 1..Len(jobs)
    /\ jobs[i].pc = "scheduled"
    /\ jobs' = [jobs EXCEPT ![i].pc = "done",
                            ![i].final = FinalOf(jobs[i],
                                                 session.isWhisperModelLoaded, res),
                            ![i].sessionId = session.sessionId,
                            ![i].emitted = EmittedBy(jobs[i],
                                                     session.isWhisperModelLoaded, res)]
    /\ UNCHANGED <<session, timers, queuedBlocks, runningBlocks, stopPc,
                   stopLock, pendingWrites>>
    /\ UNCHANGED <<coordVars, objVars>>

\* the partial timer and the inference blocks across recordings
NextSession ==
    \/ \E n \in OneNote, s \in SessionIds,
          outcome \in {"denied", "engineFailed", "ok"} : startRecording(n, s, outcome)
    \/ tap
    \/ \E t \in 1..MaxStarts : TickCheck(t)
    \/ \E t \in 1..MaxStarts : TickDispatch(t)
    \/ BlockStart
    \/ BlockEnd
    \/ \E lock \in LanguageModes : StopBegin(lock)
    \/ \E timedOut \in BOOLEAN : StopFinish(timedOut)

SpecSession == Init /\ [][NextSession]_vars

\* ------------------------------------------------------ SpecTranscription
\* the recording, its WAV writes and the background transcription
NextTranscription ==
    \/ \E success \in BOOLEAN : loadWhisperModel(success)
    \/ \E n \in NoteIds, s \in SessionIds,
          outcome \in {"denied", "engineFailed", "ok"} : startRecording(n, s, outcome)
    \/ tap
    \/ wavWrite
    \/ \E lock \in LanguageModes : StopBegin(lock)
    \/ \E timedOut \in BOOLEAN : StopFinish(timedOut)
    \/ \E i \in 1..MaxStarts, res \in WhisperResults : runTranscription(i, res)

SpecTranscription == Init /\ [][NextTranscription]_vars

\* ----------------------------------------------------------- SpecDuration
\* stopRecording's duration for any number of frames written, and the note
\* row handleStopRecording stores it in

\* the frame counts tried: the small ones, and some around one second
FrameCounts ==
    (0..MaxFrames) \cup {sampleRate, sampleRate + 16, sampleRate + 17, sampleRate + 32}

InitDuration ==
    /\ InitCoord
    /\ InitSession
    /\ notesStore = NoNotesStore
    /\ rec = NoRec
    /\ waits = NoWaits
    /\ db = NoDb
    /\ part = NoPart
    /\ wav = NoWav
    /\ ring = NoRing
    /\ fin = NoFin
    /\ calc \in [pc : {"recorded"}, totalFramesWritten : FrameCounts,
                 noteExists : BOOLEAN, durationMs : {Null},
                 noteDurationMs : {Null}]

\* stopRecording, lines 494-514: durationMs from totalFramesWritten, returned
stopRecordingDuration ==
    /\ calc.pc = "recorded"
    /\ calc' = [calc EXCEPT !.pc = "stopped",
                            !.durationMs = DurationMs(calc.totalFramesWritten)]
    /\ UNCHANGED <<coordVars, sessVars, exceptCalc>>

\* handleStopRecording: updateNoteStopInfo writes result.durationMs to the
\* note's row (UPDATE ... WHERE id = ?)
updateNoteStopInfo ==
    /\ calc.pc = "stopped"
    /\ calc' = [calc EXCEPT !.pc = "saved",
                            !.noteDurationMs =
                                IF calc.noteExists THEN calc.durationMs ELSE @]
    /\ UNCHANGED <<coordVars, sessVars, exceptCalc>>

NextDuration ==
    \/ stopRecordingDuration
    \/ updateNoteStopInfo

SpecDuration == InitDuration /\ [][NextDuration]_vars

\* ---------------------------------------------------------------- SpecWav
\* WavFileWriter (TranscriptionModule.swift): the file is a sequence of
\* bytes, written through a file handle that keeps an offset

headerSize == 44

\* n as 2 and as 4 little-endian bytes (withUnsafeBytes(of: n.littleEndian))
LE16(n) == <<n % 256, (n \div 256) % 256>>
LE32(n) == <<n % 256, (n \div 256) % 256, (n \div 65536) % 256,
             (n \div 16777216) % 256>>

\* the bytes of one Int16 sample (Data(buffer:)): two's complement, low
\* byte first
SampleBytes(x) == LE16(IF x < 0 THEN x + 65536 ELSE x)

RECURSIVE SamplesData(_)
SamplesData(samples) ==
    IF samples = <<>> THEN <<>>
    ELSE SampleBytes(Head(samples)) \o SamplesData(Tail(samples))

\* "RIFF", "WAVE", "fmt " and "data" in UTF-8
RIFF == <<82, 73, 70, 70>>
WAVE == <<87, 65, 86, 69>>
FMT == <<102, 109, 116, 32>>
DATA == <<100, 97, 116, 97>>

\* a header whose chunkSize counts the whole file
createWavHeaderWholeFile(dataSize, rate, channels, bitsPerSample) ==
    RIFF \o LE32(headerSize + dataSize) \o WAVE
    \o FMT \o LE32(16) \o LE16(1) \o LE16(channels) \o LE32(rate)
    \o LE32(rate * channels * (bitsPerSample \div 8))
    \o LE16(channels * (bitsPerSample \div 8)) \o LE16(bitsPerSample)
    \o DATA \o LE32(dataSize)

createWavHeader(dataSize, rate, channels, bitsPerSample) ==
    RIFF \o LE32(36 + dataSize) \o WAVE
    \o FMT \o LE32(16) \o LE16(1) \o LE16(channels) \o LE32(rate)
    \o LE32(rate * channels * (bitsPerSample \div 8))
    \o LE16(channels * (bitsPerSample \div 8)) \o LE16(bitsPerSample)
    \o DATA \o LE32(dataSize)

\* fileHandle.write(bytes) at offset (0-based): overwrites, extends at the end
WriteAt(file, offset, bytes) ==
    [i \in 1..(IF offset + Len(bytes) > Len(file)
               THEN offset + Len(bytes) ELSE Len(file)) |->
        IF i > offset /\ i <= offset + Len(bytes) THEN bytes[i - offset]
        ELSE file[i]]

\* the samples tried and the blocks made of them
WavSamples == {0, -2, 258}
RECURSIVE Blocks(_)
Blocks(n) ==
    IF n = 0 THEN {<<>>}
    ELSE Blocks(n - 1) \cup {Append(b, x) : b \in {c \in Blocks(n - 1) : Len(c) = n - 1},
                                            x \in WavSamples}

\* WavFileWriter.init as TranscriptionSession calls it: 16000 Hz, 1 channel,
\* 16 bits; the placeholder header is written
InitWav ==
    /\ InitCoord
    /\ InitSession
    /\ notesStore = NoNotesStore
    /\ rec = NoRec
    /\ waits = NoWaits
    /\ db = NoDb
    /\ part = NoPart
    /\ calc = NoCalc
    /\ ring = NoRing
    /\ fin = NoFin
    /\ wav = [state |-> "open",
              file |-> createWavHeader(0, sampleRate, 1, 16),
              offset |-> headerSize,
              dataSize |-> 0,
              appends |-> 0,
              samples |-> <<>>]

\* append(samples:) / append(data:)
wavAppend(block) ==
    /\ wav.state = "open"
    /\ wav.appends < MaxAppends
    /\ LET data == SamplesData(block) IN
       wav' = [wav EXCEPT !.file = WriteAt(wav.file, wav.offset, data),
                          !.offset = @ + Len(data),
                          !.dataSize = @ + Len(data),
                          !.appends = @ + 1,
                          !.samples = @ \o block]
    /\ UNCHANGED <<coordVars, sessVars, exceptWav>>

\* finish(): the corrected header overwrites the placeholder
wavFinish ==
    /\ wav.state = "open"
    /\ LET correctedHeader == createWavHeader(wav.dataSize, sampleRate, 1, 16) IN
       wav' = [wav EXCEPT !.state = "finished",
                          !.file = WriteAt(wav.file, 0, correctedHeader),
                          !.offset = Len(correctedHeader)]
    /\ UNCHANGED <<coordVars, sessVars, exceptWav>>

NextWav ==
    \/ \E block \in Blocks(MaxBlock) : wavAppend(block)
    \/ wavFinish

SpecWav == InitWav /\ [][NextWav]_vars

\* --------------------------------------------------------------- SpecRing
\* CircularBuffer (CircularBuffer.swift).  buffer is indexed from 0 as in
\* the source.  The x-th sample appended has the value x, so that an order
\* can be read off a snapshot.  ring.pc is where the appending thread is
\* inside append; the lock is held from "store" to "unlock".

\* maxSamples: Int? = nil is <<>>; a given k is <<k>>
MaxSamplesArgs == {<<>>} \cup {<<k>> : k \in 0..(RingCapacity + 1)}

\* count = min(count + 1, capacity) without the min
CountUnbounded(count, capacity) == count + 1

CountAfter(count, capacity) == Min(count + 1, capacity)

\* a snapshot that always reads from index 0
SnapshotFromZero(buffer, writeIndex, count, capacity, maxSamples) ==
    IF count <= 0 THEN <<>>
    ELSE LET samplesToReturn == IF maxSamples # <<>> THEN Min(maxSamples[1], count) ELSE count IN
         IF samplesToReturn <= 0 THEN <<>>
         ELSE LET samplesFromStart == IF count = capacity THEN capacity ELSE count
                  skipCount == IF maxSamples # <<>> /\ samplesFromStart > maxSamples[1]
                               THEN samplesFromStart - maxSamples[1] ELSE 0
              IN [j \in 1..(samplesFromStart - skipCount) |->
                    buffer[(skipCount + j - 1) % capacity]]

\* the body of getSnapshot(maxSamples:) inside the lock
Snapshot(buffer, writeIndex, count, capacity, maxSamples) ==
    IF count <= 0 THEN <<>>
    ELSE LET samplesToReturn == IF maxSamples # <<>> THEN Min(maxSamples[1], count) ELSE count IN
         IF samplesToReturn <= 0 THEN <<>>
         ELSE LET startIndex == IF count = capacity THEN writeIndex ELSE 0
                  samplesFromStart == IF count = capacity THEN capacity ELSE count
                  skipCount == IF maxSamples # <<>> /\ samplesFromStart > maxSamples[1]
                               THEN samplesFromStart - maxSamples[1] ELSE 0
              IN [j \in 1..(samplesFromStart - skipCount) |->
                    buffer[(startIndex + skipCount + j - 1) % capacity]]

\* init(capacity:)
InitRing ==
    /\ InitCoord
    /\ InitSession
    /\ notesStore = NoNotesStore
    /\ rec = NoRec
    /\ waits = NoWaits
    /\ db = NoDb
    /\ part = NoPart
    /\ calc = NoCalc
    /\ wav = NoWav
    /\ fin = NoFin
    /\ ring = [pc |-> "idle",
               buffer |-> [i \in 0..(RingCapacity - 1) |-> 0],
               writeIndex |-> 0,
               count |-> 0,
               capacity |-> RingCapacity,
               elements |-> <<>>,
               appended |-> 0,
               sinceClear |-> <<>>,
               full |-> FALSE,
               got |-> [op |-> "none"]]

\* append(_:) and append(contentsOf:) take the lock; elements are the next
\* n samples
ringAppend(n) ==
    /\ ring.pc = "idle"
    /\ ring.appended + n <= MaxSamples
    /\ ring' = [ring EXCEPT !.pc = IF n = 0 THEN "unlock" ELSE "store",
                            !.elements = [j \in 1..n |-> ring.appended + j]]
    /\ UNCHANGED <<coordVars, sessVars, exceptRing>>

\* buffer[writeIndex] = element
ringStore ==
    /\ ring.pc = "store"
    /\ ring' = [ring EXCEPT !.pc = "advance",
                            !.buffer[ring.writeIndex] = Head(ring.elements)]
    /\ UNCHANGED <<coordVars, sessVars, exceptRing>>

\* writeIndex = (writeIndex + 1) % capacity
ringAdvance ==
    /\ ring.pc = "advance"
    /\ ring' = [ring EXCEPT !.pc = "count",
                            !.writeIndex = (ring.writeIndex + 1) % ring.capacity]
    /\ UNCHANGED <<coordVars, sessVars, exceptRing>>

\* count = min(count + 1, capacity); the element is now appended
ringCount ==
    /\ ring.pc = "count"
    /\ ring' = [ring EXCEPT !.pc = IF Len(ring.elements) > 1 THEN "store" ELSE "unlock",
                            !.count = CountAfter(ring.count, ring.capacity),
                            !.elements = Tail(@),
                            !.appended = @ + 1,
                            !.sinceClear = Append(@, Head(ring.elements)),
                            !.full = @ \/ Len(ring.sinceClear) + 1 >= ring.capacity]
    /\ UNCHANGED <<coordVars, sessVars, exceptRing>>

\* defer { lock.unlock() }
ringUnlock ==
    /\ ring.pc = "unlock"
    /\ ring' = [ring EXCEPT !.pc = "idle"]
    /\ UNCHANGED <<coordVars, sessVars, exceptRing>>

\* lock.lock() of the other callers: the appending thread is not inside
LockFree == ring.pc = "idle"

\* getSnapshot(maxSamples:) on another thread
ringGetSnapshot(maxSamples) ==
    /\ LockFree
    /\ ring' = [ring EXCEPT !.got =
                   [op |-> "getSnapshot",
                    maxSamples |-> maxSamples,
                    result |-> Snapshot(ring.buffer, ring.writeIndex, ring.count,
                                        ring.capacity, maxSamples),
                    appendPc |-> ring.pc,
                    sinceClear |-> ring.sinceClear]]
    /\ UNCHANGED <<coordVars, sessVars, exceptRing>>

\* getCount()
ringGetCount ==
    /\ LockFree
    /\ ring' = [ring EXCEPT !.got = [op |-> "getCount", result |-> ring.count]]
    /\ UNCHANGED <<coordVars, sessVars, exceptRing>>

\* clear()
ringClear ==
    /\ LockFree
    /\ ring' = [ring EXCEPT !.writeIndex = 0,
                            !.count = 0,
                            !.sinceClear = <<>>,
                            !.full = FALSE,
                            !.got = [op |-> "clear"]]
    /\ UNCHANGED <<coordVars, sessVars, exceptRing>>

NextRing ==
    \/ \E n \in 0..MaxChunk : ringAppend(n)
    \/ ringStore
    \/ ringAdvance
    \/ ringCount
    \/ ringUnlock
    \/ \E maxSamples \in MaxSamplesArgs : ringGetSnapshot(maxSamples)
    \/ ringGetCount
    \/ ringClear

SpecRing == InitRing /\ [][NextRing]_vars

\* ------------------------------------------------------------ SpecCascade
\* the repository alone: notes inserted, segments inserted for them,
\* notes deleted; last keeps the segments table as it was before a delete

SegmentOf(i) == [startMs |-> i + 1, endMs |-> i + 2, text |-> "s", lang |-> "en"]
ManySegments == [i \in 1..MaxSegs |-> SegmentOf(i)]
CascadeSegLists == {<<SegA>>, <<SegB, SegC>>, ManySegments}

\* insertSegments(noteId, segments) called with final segments
insertSegmentsCall(n, segs) ==
    /\ segments' = insertSegments(segments, notes, n,
                                  [i \in 1..Len(segs) |-> FinalSegment(segs[i])])
    /\ last' = [NoOp EXCEPT !.op = "insertSegments", !.noteId = n,
                            !.threw = insertSegmentsThrows(notes, n, segs)]
    /\ UNCHANGED <<sessVars, objVars>>
    /\ UNCHANGED <<store, insertedFinalKeys, lastActiveSessionId, lastActiveNoteId,
                   notes, deletedNotes, staleDropped>>

\* deleteNote(noteId), the table before it kept in last
deleteNoteCall(n) ==
    /\ deleteNoteRows(n)
    /\ last' = [op |-> "deleteNote", noteId |-> n, before |-> segments]
    /\ UNCHANGED objVars

NextCascade ==
    \/ \E n \in NoteIds : insertNote(n)
    \/ \E n \in NoteIds, segs \in CascadeSegLists : insertSegmentsCall(n, segs)
    \/ \E n \in NoteIds : deleteNoteCall(n)

SpecCascade == Init /\ [][NextCascade]_vars

\* -------------------------------------------------------------- SpecFinal
\* runTranscription from the recognizer's result to the final event, and
\* the Coordinator's handleFinal on that event.  A text is the sequence of
\* its characters.

HelloWorldText ==
    <<"H", "e", "l", "l", "o", " ", "w", "o", "r", "l", "d", ".", " ",
      "T", "h", "i", "s", " ", "i", "s", " ", "a", " ", "t", "e", "s", "t", ".">>
TamamEvetText == <<"T", "a", "m", "a", "m", ".", " ", "E", "v", "e", "t", ".">>
MixedText == <<"a", ".", "b", "?", "!", " ", "c", "\n", " ", "d", ".", " ">>
BlankText == <<" ">>
HiText == <<"H", "i">>

\* the measured durations tried
Durations == {0, 3, 55, 5000}

\* [.!?], \s of the regular expression, and CharacterSet.whitespaces
IsPunct(c) == c \in {".", "!", "?"}
IsSpace(c) == c \in {" ", "\t", "\n"}
IsBlank(c) == c \in {" ", "\t"}

\* the first index from i on whose character is not punctuation / space
RECURSIVE PunctEnd(_, _)
PunctEnd(text, i) ==
    IF i <= Len(text) /\ IsPunct(text[i]) THEN PunctEnd(text, i + 1) ELSE i
RECURSIVE SpaceEnd(_, _)
SpaceEnd(text, i) ==
    IF i <= Len(text) /\ IsSpace(text[i]) THEN SpaceEnd(text, i + 1) ELSE i

\* the index after the match of [.!?]+\s+ that starts at i, or 0
MatchEnd(text, i) ==
    IF ~IsPunct(text[i]) THEN 0
    ELSE LET p == PunctEnd(text, i) IN
         IF p <= Len(text) /\ IsSpace(text[p]) THEN SpaceEnd(text, p) ELSE 0

\* trimmingCharacters(in: .whitespaces)
RECURSIVE TrimLeft(_)
TrimLeft(t) == IF t # <<>> /\ IsBlank(Head(t)) THEN TrimLeft(Tail(t)) ELSE t
RECURSIVE TrimRight(_)
TrimRight(t) ==
    IF t # <<>> /\ IsBlank(t[Len(t)]) THEN TrimRight(SubSeq(t, 1, Len(t) - 1)) ELSE t
\* a trim that removes nothing
NotTrimmed(t) == t

Trimmed(t) == TrimRight(TrimLeft(t))

\* the loop over the matches and the remaining text; lastIndex is the index
\* of the first character not yet in a sentence
RECURSIVE SplitFrom(_, _, _, _)
SplitFrom(text, i, lastIndex, sentences) ==
    IF i > Len(text)
    THEN LET remaining == Trimmed(SubSeq(text, lastIndex, Len(text))) IN
         IF lastIndex <= Len(text) /\ remaining # <<>>
         THEN Append(sentences, remaining) ELSE sentences
    ELSE LET e == MatchEnd(text, i) IN
         IF e = 0 THEN SplitFrom(text, i + 1, lastIndex, sentences)
         ELSE LET sentence == Trimmed(SubSeq(text, lastIndex, e - 1)) IN
              SplitFrom(text, e, e,
                        IF sentence # <<>> THEN Append(sentences, sentence)
                        ELSE sentences)

\* a split that drops the punctuation from the sentences
splitWithoutPunctuation(text) ==
    LET sentences == SplitFrom(text, 1, 1, <<>>) IN
    [i \in 1..Len(sentences) |->
        SelectSeq(sentences[i], LAMBDA c : ~IsPunct(c))]

splitIntoSentences(text) ==
    LET sentences == SplitFrom(text, 1, 1, <<>>) IN
    IF sentences = <<>> THEN <<text>> ELSE sentences

RECURSIVE SumOfCounts(_)
SumOfCounts(sentences) ==
    IF sentences = <<>> THEN 0
    ELSE Len(Head(sentences)) + SumOfCounts(Tail(sentences))

\* the (durationMs, count, totalChars) of SpecFinal for which the double
\* product durationMs * (count / totalChars) is just below a whole number
ProductRoundsBelow == {<<55, 3, 11>>, <<55, 6, 11>>, <<55, 6, 22>>, <<55, 12, 22>>}

\* Int(Double(durationMs) * charRatio)
SegmentDuration(durationMs, count, totalChars) ==
    IF <<durationMs, count, totalChars>> \in ProductRoundsBelow
    THEN (durationMs * count) \div totalChars - 1
    ELSE (durationMs * count) \div totalChars

\* segments that all start at currentMs instead of at the previous end
SegmentsAllFrom(sentences, totalChars, currentMs, durationMs, lang) ==
    [i \in 1..Len(sentences) |->
        [startMs |-> currentMs,
         endMs |-> Min(currentMs + SegmentDuration(durationMs, Len(sentences[i]),
                                                   totalChars), durationMs),
         text |-> sentences[i], lang |-> lang]]

RECURSIVE SegmentsFrom(_, _, _, _, _)
SegmentsFrom(sentences, totalChars, currentMs, durationMs, lang) ==
    IF sentences = <<>> THEN <<>>
    ELSE LET segmentDuration == SegmentDuration(durationMs, Len(Head(sentences)), totalChars)
             segmentEndMs == Min(currentMs + segmentDuration, durationMs)
         IN <<[startMs |-> currentMs, endMs |-> segmentEndMs,
               text |-> Head(sentences), lang |-> lang]>>
            \o SegmentsFrom(Tail(sentences), totalChars, segmentEndMs, durationMs, lang)

createSegmentsWithTimestamps(sentences, durationMs, lang) ==
    IF sentences = <<>> THEN <<>>
    ELSE LET totalChars == SumOfCounts(sentences) IN
         IF totalChars <= 0 THEN <<>>
         ELSE SegmentsFrom(sentences, totalChars, 0, durationMs, lang)

\* the language lock passed through as the segments' lang
segmentLangAsIs(lang) == lang

normalizeSegmentLang(lang) ==
    IF lang = "auto_tr" THEN "tr"
    ELSE IF lang = "auto_en" THEN "en"
    ELSE IF lang = "tr" \/ lang = "en" THEN lang
    ELSE "en"

\* the languageLock values stopRecording is called with
StopLocks == {"auto", "en", "auto_tr", "de"}

\* what transcribe returns: detectedProbability in hundredths
FirstResults ==
    [error : BOOLEAN, text : {<<>>, HelloWorldText, TamamEvetText, MixedText, BlankText},
     detected : {[language |-> "nil", probability |-> 0],
                 [language |-> "en", probability |-> 45],
                 [language |-> "tr", probability |-> 44]}]
ForcedResults == {[error |-> FALSE, text |-> <<>>], [error |-> FALSE, text |-> HiText]}
FallbackResults == {[text |-> <<>>, languageLock |-> "auto_en"],
                    [text |-> TamamEvetText, languageLock |-> "auto_tr"]}

\* text and finalLanguageLock after the smart auto fallback (lines 566-612)
Resolved(languageMode, res, forced, fallback) ==
    IF languageMode # "auto"
    THEN [text |-> res.text, languageLock |-> languageMode]
    ELSE IF res.detected.language \in {"tr", "en"} /\ res.detected.probability >= 45
    THEN IF res.text = <<>>
         THEN IF ~forced.error /\ forced.text # <<>>
              THEN [text |-> forced.text,
                    languageLock |-> IF res.detected.language = "tr"
                                     THEN "auto_tr" ELSE "auto_en"]
              ELSE fallback
         ELSE [text |-> res.text,
               languageLock |-> IF res.detected.language = "tr"
                                THEN "auto_tr" ELSE "auto_en"]
    ELSE IF res.text = <<>> THEN fallback
    ELSE [text |-> res.text, languageLock |-> languageMode]

\* the event runTranscription emits: none, the error event with segments []
\* or the event with the segments
FinalEvent(f) ==
    IF f.noteId = Null \/ f.durationMs <= 0 THEN [kind |-> "none"]
    ELSE IF ~f.modelLoaded \/ f.res.error
    THEN [kind |-> "error", noteId |-> f.noteId, sessionId |-> f.sessionId,
          segments |-> <<>>]
    ELSE LET r == Resolved(f.languageMode, f.res, f.forced, f.fallback) IN
         IF r.text = <<>>
         THEN [kind |-> "error", noteId |-> f.noteId, sessionId |-> f.sessionId,
               segments |-> <<>>]
         ELSE [kind |-> "final", noteId |-> f.noteId, sessionId |-> f.sessionId,
               segments |-> createSegmentsWithTimestamps(
                                splitIntoSentences(r.text), f.durationMs,
                                normalizeSegmentLang(r.languageLock)),
               languageLock |-> r.languageLock]

InitFinal ==
    /\ InitCoord
    /\ InitSession
    /\ notesStore = NoNotesStore
    /\ rec = NoRec
    /\ waits = NoWaits
    /\ db = NoDb
    /\ part = NoPart
    /\ calc = NoCalc
    /\ wav = NoWav
    /\ ring = NoRing
    /\ fin \in [pc : {"scheduled"}, noteId : OneNote, sessionId : {1},
                durationMs : Durations, languageMode : StopLocks,
                modelLoaded : BOOLEAN, res : FirstResults,
                forced : ForcedResults, fallback : FallbackResults,
                event : {[kind |-> "none"]}]

\* runTranscription up to the event handed to the delegate
emitFinal ==
    /\ fin.pc = "scheduled"
    /\ fin' = [fin EXCEPT !.pc = "emitted", !.event = FinalEvent(fin)]
    /\ UNCHANGED <<coordVars, sessVars, exceptFin>>

\* onAsrFinal reaches the Coordinator
deliverFinal ==
    /\ fin.pc = "emitted"
    /\ fin.event.kind # "none"
    /\ handleFinal([noteId |-> fin.event.noteId, sessionId |-> fin.event.sessionId,
                    segments |-> fin.event.segments])

NextFinal ==
    \/ \E n \in OneNote : insertNote(n)
    \/ \E n \in OneNote, s \in SessionIds : beginSession(n, s)
    \/ emitFinal
    \/ deliverFinal

SpecFinal == InitFinal /\ [][NextFinal]_vars

\* ----------------------------------------------------------- SpecFallback
\* runTranscription with a recognizer that is a function of the language it
\* is asked for: the first run, the forced run and runAutoFallback's two
\* runs all ask it, and computeQualityScore ranks the two candidates.

TheTheText == <<"t", "h", "e", " ", "t", "h", "e", " ", "t", "h", "e", " ", "t", "h", "e", " ", "t", "h", "e">>
MerhabaText ==
    <<"m", "e", "r", "h", "a", "b", "a", " ", "b", "u", " ", "b", "i", "r", " ", "t", "e", "s", "t", " ", "c", "u~", "m", "l", "e", "s", "i", "d", "i", "r">>
OkOkText == <<"o", "k", " ", "o", "k", " ", "o", "k", " ", "O", "k">>

UpperCase == <<"A", "B", "C", "D", "E", "F", "G", "H", "I", "J", "K", "L", "M", "N", "O", "P", "Q", "R", "S", "T", "U", "V", "W", "X", "Y", "Z">>
LowerCase == <<"a", "b", "c", "d", "e", "f", "g", "h", "i", "j", "k", "l", "m", "n", "o", "p", "q", "r", "s", "t", "u", "v", "w", "x", "y", "z">>

\* lowercased()
Lowered(text) ==
    [i \in 1..Len(text) |->
        IF \E k \in 1..Len(UpperCase) : UpperCase[k] = text[i]
        THEN LowerCase[CHOOSE k \in 1..Len(UpperCase) : UpperCase[k] = text[i]]
        ELSE text[i]]

\* components(separatedBy: .whitespacesAndNewlines).filter { !$0.isEmpty }
RECURSIVE WordsFrom(_, _, _)
WordsFrom(text, word, words) ==
    IF text = <<>> THEN IF word = <<>> THEN words ELSE Append(words, word)
    ELSE IF IsSpace(Head(text))
    THEN WordsFrom(Tail(text), <<>>, IF word = <<>> THEN words ELSE Append(words, word))
    ELSE WordsFrom(Tail(text), Append(word, Head(text)), words)

\* the loop over words[1...]: the longest run of a word repeated
RECURSIVE MaxRepeatFrom(_, _, _, _)
MaxRepeatFrom(words, i, currentRepeat, maxRepeat) ==
    IF i > Len(words) THEN maxRepeat
    ELSE IF words[i] = words[i - 1]
    THEN MaxRepeatFrom(words, i + 1, currentRepeat + 1,
                       IF currentRepeat + 1 > maxRepeat THEN currentRepeat + 1
                       ELSE maxRepeat)
    ELSE MaxRepeatFrom(words, i + 1, 1, maxRepeat)

CountOf(words, word) == Cardinality({i \in 1..Len(words) : words[i] = word})

turkishLetters == {"c~", "g~", "i~", "s~", "o~", "u~"}
turkishWords ==
    {<<"v", "e">>, <<"b", "i", "r">>, <<"b", "u">>, <<"b", "e", "n">>, 
     <<"s", "e", "n">>, <<"i", "c~", "i", "n">>, 
     <<"d", "e", "g~", "i", "l">>, <<"s~", "i", "m", "d", "i">>, 
     <<"v", "a", "r">>, <<"y", "o", "k">>, <<"i", "l", "e">>, 
     <<"o", "l", "a", "n">>, <<"g", "i", "b", "i">>, 
     <<"k", "a", "d", "a", "r">>, <<"d", "a", "h", "a">>, 
     <<"c~", "o", "k">>, <<"a", "z">>, <<"e", "n">>, <<"d", "a">>, 
     <<"d", "e">>, <<"k", "i">>, <<"m", "i">>, <<"m", "i~">>, 
     <<"m", "u">>, <<"m", "u~">>}
englishWords ==
    {<<"t", "h", "e">>, <<"a", "n", "d">>, <<"i", "s">>, 
     <<"a", "r", "e">>, <<"t", "o">>, <<"o", "f">>, <<"i", "n">>, 
     <<"f", "o", "r">>, <<"w", "i", "t", "h">>, <<"i">>, 
     <<"y", "o", "u">>, <<"w", "e">>, <<"t", "h", "e", "y">>, 
     <<"t", "h", "i", "s">>, <<"t", "h", "a", "t">>, 
     <<"h", "a", "v", "e">>, <<"h", "a", "s">>, <<"h", "a", "d">>, 
     <<"w", "a", "s">>, <<"w", "e", "r", "e">>, <<"b", "e", "e", "n">>, 
     <<"b", "e">>, <<"d", "o">>, <<"d", "o", "e", "s">>, 
     <<"d", "i", "d">>, <<"w", "i", "l", "l">>, 
     <<"w", "o", "u", "l", "d">>, <<"c", "a", "n">>, 
     <<"c", "o", "u", "l", "d">>, <<"s", "h", "o", "u", "l", "d">>, 
     <<"m", "a", "y">>, <<"m", "i", "g", "h", "t">>}

\* a score that is the word count alone
wordCountOnly(text, languageHint) == Len(WordsFrom(Lowered(text), <<>>, <<>>))

computeQualityScore(text, languageHint) ==
    LET words == WordsFrom(Lowered(text), <<>>, <<>>)
        wordCount == Len(words)
    IN IF wordCount <= 0 THEN 0
       ELSE LET maxRepeat == MaxRepeatFrom(words, 2, 1, 0)
                repeatPenalty == IF maxRepeat > 2 THEN maxRepeat * 5 ELSE 0
                nonsenseCount ==
                    Cardinality({i \in 1..Len(words) :
                                    Len(words[i]) <= 2 /\ CountOf(words, words[i]) > 3})
                nonsensePenalty == nonsenseCount * 3
                turkishLetterCount ==
                    Cardinality({i \in 1..Len(text) : Lowered(text)[i] \in turkishLetters})
                turkishWordCount ==
                    Cardinality({i \in 1..Len(words) : words[i] \in turkishWords})
                englishWordCount ==
                    Cardinality({i \in 1..Len(words) : words[i] \in englishWords})
                languageHintBonus ==
                    IF languageHint = "tr" THEN turkishLetterCount * 4 + turkishWordCount * 3
                    ELSE IF languageHint = "en" THEN englishWordCount * 1
                    ELSE 0
            IN Min(wordCount, 80) + languageHintBonus - repeatPenalty - nonsensePenalty

\* runAutoFallback on the two candidates (an error counts as "")
runAutoFallback(trText, enText) ==
    IF trText = <<>> /\ enText # <<>> THEN [text |-> enText, languageLock |-> "auto_en"]
    ELSE IF enText = <<>> /\ trText # <<>> THEN [text |-> trText, languageLock |-> "auto_tr"]
    ELSE IF trText = <<>> /\ enText = <<>> THEN [text |-> <<>>, languageLock |-> "auto_en"]
    ELSE IF computeQualityScore(trText, "tr") > computeQualityScore(enText, "en")
    THEN [text |-> trText, languageLock |-> "auto_tr"]
    ELSE [text |-> enText, languageLock |-> "auto_en"]

\* the language the first run is asked for (lines 545-554)
LanguageToUse(languageMode) ==
    IF languageMode = "auto" THEN "auto"
    ELSE IF languageMode = "auto_tr" THEN "tr"
    ELSE IF languageMode = "auto_en" THEN "en"
    ELSE languageMode

RecognizerLanguages == {"auto", "en", "tr"}
CandidateTexts == {<<>>, TheTheText, MerhabaText, OkOkText}
Detections == {[language |-> "nil", probability |-> 0],
               [language |-> "en", probability |-> 45],
               [language |-> "tr", probability |-> 45],
               [language |-> "tr", probability |-> 44]}

\* which runs of the recognizer runTranscription makes after the first:
\* "first" (none), "forced" (the detected language), "forcedThenBoth", "both"
RunsMade(languageMode, firstText, detected, forcedText) ==
    IF languageMode # "auto" THEN "first"
    ELSE IF detected.language \in {"tr", "en"} /\ detected.probability >= 45
    THEN IF firstText = <<>>
         THEN IF forcedText # <<>> THEN "forced" ELSE "forcedThenBoth"
         ELSE "first"
    ELSE IF firstText = <<>> THEN "both" ELSE "first"

InitFallback ==
    /\ InitCoord
    /\ InitSession
    /\ notesStore = NoNotesStore
    /\ rec = NoRec
    /\ waits = NoWaits
    /\ db = NoDb
    /\ part = NoPart
    /\ calc = NoCalc
    /\ wav = NoWav
    /\ ring = NoRing
    /\ fin \in [pc : {"scheduled"}, noteId : OneNote, sessionId : {1},
                durationMs : {5000}, languageMode : {"auto", "auto_en"},
                modelLoaded : {TRUE},
                recognizer : [RecognizerLanguages -> CandidateTexts],
                detected : Detections,
                runs : {"none"}, trScore : {0}, enScore : {0},
                event : {[kind |-> "none"]}]

\* runTranscription with that recognizer, up to the event it emits
emitWithRecognizer ==
    /\ fin.pc = "scheduled"
    /\ LET first == fin.recognizer[LanguageToUse(fin.languageMode)]
           forcedText == IF fin.detected.language \in {"tr", "en"}
                         THEN fin.recognizer[fin.detected.language] ELSE <<>>
           f == [noteId |-> fin.noteId, sessionId |-> fin.sessionId,
                 durationMs |-> fin.durationMs, languageMode |-> fin.languageMode,
                 modelLoaded |-> fin.modelLoaded,
                 res |-> [error |-> FALSE, text |-> first, detected |-> fin.detected],
                 forced |-> [error |-> FALSE, text |-> forcedText],
                 fallback |-> runAutoFallback(fin.recognizer["tr"], fin.recognizer["en"])]
       IN fin' = [fin EXCEPT !.pc = "emitted",
                             !.runs = RunsMade(fin.languageMode, first, fin.detected,
                                               forcedText),
                             !.trScore = computeQualityScore(fin.recognizer["tr"], "tr"),
                             !.enScore = computeQualityScore(fin.recognizer["en"], "en"),
                             !.event = FinalEvent(f)]
    /\ UNCHANGED <<coordVars, sessVars, exceptFin>>

NextFallback == emitWithRecognizer

SpecFallback == InitFallback /\ [][NextFallback]_vars

\* -------------------------------------------------------------- SpecShort
\* one recording from start to its final transcription, with the partial
\* timer, the tap, the WAV writes and stopRecording interleaved
NextShort ==
    \/ \E success \in BOOLEAN : loadWhisperModel(success)
    \/ \E n \in OneNote, s \in SessionIds,
          outcome \in {"denied", "wavFailed", "engineFailed", "ok"} :
            session.starts = 0 /\ startRecording(n, s, outcome)
    \/ tap
    \/ wavWrite
    \/ \E t \in 1..MaxStarts : TickCheck(t)
    \/ \E t \in 1..MaxStarts : TickDispatch(t)
    \/ BlockStart
    \/ BlockEnd
    \/ \E lock \in LanguageModes : StopBegin(lock)
    \/ \E timedOut \in BOOLEAN : StopFinish(timedOut)
    \/ \E i \in 1..MaxStarts, res \in WhisperResults : runTranscription(i, res)

SpecShort == Init /\ [][NextShort]_vars

\* ---------------------------------------------------------------- SpecSplit
\* splitIntoSentences as a pure function: every text over a small alphabet up
\* to MaxText characters is split, and the sentences joined with one space
\* are split again.

MaxText == 5
Alphabet == {"a", ".", " ", "\n"}
Texts ==
    UNION {[1..n -> Alphabet] : n \in 0..MaxText}
        \cup {HelloWorldText, TamamEvetText, MixedText}

InitSplit ==
    /\ InitCoord
    /\ InitSession
    /\ notesStore = NoNotesStore
    /\ rec = NoRec
    /\ waits = NoWaits
    /\ db = NoDb
    /\ part = NoPart
    /\ calc = NoCalc
    /\ wav = NoWav
    /\ ring = NoRing
    /\ fin \in [pc : {"text"}, text : Texts, sentences : {<<>>},
                joined : {<<>>}, again : {<<>>}]

\* sentences.joined(separator: " ")
RECURSIVE JoinedBySpace(_)
JoinedBySpace(sentences) ==
    IF sentences = <<>> THEN <<>>
    ELSE IF Len(sentences) = 1 THEN sentences[1]
    ELSE sentences[1] \o <<" ">> \o JoinedBySpace(Tail(sentences))

splitText ==
    /\ fin.pc = "text"
    /\ fin' = [fin EXCEPT !.pc = "split",
                          !.sentences = splitIntoSentences(fin.text)]
    /\ UNCHANGED <<coordVars, sessVars, exceptFin>>

splitJoined ==
    /\ fin.pc = "split"
    /\ LET joined == JoinedBySpace(fin.sentences) IN
       fin' = [fin EXCEPT !.pc = "resplit", !.joined = joined,
                          !.again = splitIntoSentences(joined)]
    /\ UNCHANGED <<coordVars, sessVars, exceptFin>>

NextSplit == splitText \/ splitJoined

SpecSplit == InitSplit /\ [][NextSplit]_vars

\* ---------------------------------------------------------- SpecPlaceholder
\* WavFileWriter.init over a path that may already hold a file, followed by
\* the appends and finish() of SpecWav.

\* what the target path holds before construction: nothing, the finished
\* file of an earlier recording, or a few stray bytes
EarlierRecording == createWavHeader(4, sampleRate, 1, 16) \o SamplesData(<<258, -2>>)
ExistingFiles == {<<>>, EarlierRecording, <<1, 2, 3>>}

InitPlaceholder ==
    /\ InitCoord
    /\ InitSession
    /\ notesStore = NoNotesStore
    /\ rec = NoRec
    /\ waits = NoWaits
    /\ db = NoDb
    /\ part = NoPart
    /\ calc = NoCalc
    /\ ring = NoRing
    /\ fin = NoFin
    /\ wav \in [state : {"unopened"}, file : ExistingFiles, offset : {0},
                dataSize : {0}, appends : {0}, samples : {<<>>}]

\* a construction that leaves the bytes of the existing file in place
KeptFile(file) == file

\* removeItem(at:) and createFile(atPath:contents: nil)
RemovedAndCreated(file) == <<>>

\* init?(url:...): with no file handle the initializer returns nil
wavInit(opened) ==
    /\ wav.state = "unopened"
    /\ LET created == RemovedAndCreated(wav.file)
           placeholderHeader == createWavHeader(0, sampleRate, 1, 16)
       IN IF opened
          THEN wav' = [wav EXCEPT !.state = "open",
                                  !.file = WriteAt(created, 0, placeholderHeader),
                                  !.offset = Len(placeholderHeader)]
          ELSE wav' = [wav EXCEPT !.state = "failed", !.file = created]
    /\ UNCHANGED <<coordVars, sessVars, exceptWav>>

NextPlaceholder ==
    \/ \E opened \in BOOLEAN : wavInit(opened)
    \/ \E block \in Blocks(MaxBlock) : wavAppend(block)
    \/ wavFinish

SpecPlaceholder == InitPlaceholder /\ [][NextPlaceholder]_vars

\* ---------------------------------------------------------------- SpecStore
\* a transcription in a fixed language, from the text Whisper returns to the
\* rows of the segments table

\* two short sentences before a longer one
TinyText == <<"a", ".", " ", "b", ".", " ", "c", "d", "e", "f">>
StoreTexts == {HelloWorldText, TamamEvetText, MixedText, TinyText}

InitStore ==
    /\ InitCoord
    /\ InitSession
    /\ notesStore = NoNotesStore
    /\ rec = NoRec
    /\ waits = NoWaits
    /\ db = NoDb
    /\ part = NoPart
    /\ calc = NoCalc
    /\ wav = NoWav
    /\ ring = NoRing
    /\ fin \in [pc : {"scheduled"}, noteId : OneNote, sessionId : {1},
                durationMs : Durations, languageMode : {"en", "tr"},
                modelLoaded : {TRUE},
                res : [error : {FALSE}, text : StoreTexts,
                       detected : {[language |-> "nil", probability |-> 0]}],
                forced : {[error |-> FALSE, text |-> <<>>]},
                fallback : {[text |-> <<>>, languageLock |-> "auto_en"]},
                event : {[kind |-> "none"]}]

SpecStore == InitStore /\ [][NextFinal]_vars

\* --------------------------------------------------------------- SpecStamps
\* createSegmentsWithTimestamps as a pure function: the sentence lists that
\* splitIntoSentences returns for Texts, and lists with an empty sentence,
\* with every duration of Durations.

SentenceLists ==
    {splitIntoSentences(t) : t \in Texts}
        \cup {<<<<>>>>, <<<<>>, <<"a">>>>, <<<<"a", ".">>, <<>>, <<"b">>>>}

InitStamps ==
    /\ InitCoord
    /\ InitSession
    /\ notesStore = NoNotesStore
    /\ rec = NoRec
    /\ waits = NoWaits
    /\ db = NoDb
    /\ part = NoPart
    /\ calc = NoCalc
    /\ wav = NoWav
    /\ ring = NoRing
    /\ fin \in [pc : {"sentences"}, sentences : SentenceLists,
                durationMs : Durations, lang : {"en"}, segments : {<<>>}]

stampSegments ==
    /\ fin.pc = "sentences"
    /\ fin' = [fin EXCEPT !.pc = "stamped",
                          !.segments = createSegmentsWithTimestamps(
                                           fin.sentences, fin.durationMs, fin.lang)]
    /\ UNCHANGED <<coordVars, sessVars, exceptFin>>

NextStamps == stampSegments

SpecStamps == InitStamps /\ [][NextStamps]_vars

\* ----------------------------------------------------------------- SpecPart
\* the partial ticks of one recording: processPartialBuffer's guard, the
\* inference block it dispatches (up to the recognizer call, and from the
\* call's return to the event), and stopRecording around them.

minPartialChars == 3
maxPartialSegments == 10

HiDotText == <<"H", "i", ".">>
HiDotOText == <<"H", "i", ".", " ", "O">>
HiOkayText == <<"H", "i", ".", " ", "O", "k", "a", "y", ".">>
NoDotText == <<"N", "o", ".">>
ElevenText ==
    <<"a", ".", " ", "a", ".", " ", "a", ".", " ", "a", ".", " ", "a", ".", " ",
      "a", ".", " ", "a", ".", " ", "a", ".", " ", "a", ".", " ", "a", ".", " ",
      "a", ".">>
PartTexts == {<<>>, HiDotText, HiDotOText, HiOkayText, NoDotText, ElevenText}

\* what whisper computes for the window, before the engine fills in the
\* result: probabilities in hundredths
PartDetections ==
    {[language |-> "nil", probability |-> 0], [language |-> "tr", probability |-> 80],
     [language |-> "en", probability |-> 80], [language |-> "tr", probability |-> 45],
     [language |-> "de", probability |-> 90]}
RawResults == [error : BOOLEAN, text : PartTexts, detected : PartDetections]
ForcedRaw == [error : BOOLEAN, text : {<<>>, HiDotText}, detected : PartDetections]

\* an engine that reports its language detection for every call
DetectedAlways(language, raw) == raw.detected

\* WhisperEngine.transcribe: the detection with its probability is made for
\* "auto" only; for a given language the result names that language with
\* probability 0, and a failed inference returns before either
Detected(language, raw) ==
    IF language = "auto" THEN raw.detected
    ELSE [language |-> IF raw.error THEN "nil" ELSE language, probability |-> 0]

transcribe(language, raw) ==
    [error |-> raw.error,
     text |-> IF raw.error THEN <<>> ELSE raw.text,
     detected |-> Detected(language, raw)]

\* a getLanguageForPartial that ignores the lock
languageModeOnly(languageLock, languageMode) == languageMode

getLanguageForPartial(languageLock, languageMode) ==
    IF languageLock = "auto_tr" THEN "tr"
    ELSE IF languageLock = "auto_en" THEN "en"
    ELSE IF languageLock \in {"tr", "en"} THEN languageLock
    ELSE languageMode

HasPrefix(text, prefix) ==
    Len(prefix) <= Len(text) /\ SubSeq(text, 1, Len(prefix)) = prefix

Abs(n) == IF n < 0 THEN 0 - n ELSE n

\* an emit rule that lets every text through
AlwaysChanged(joinedText, lastEmitted) == TRUE

\* diff >= minPartialChars || !joinedText.hasPrefix(lastEmittedPartialText)
ChangedEnough(joinedText, lastEmitted) ==
    \/ Abs(Len(joinedText) - Len(lastEmitted)) >= minPartialChars
    \/ ~HasPrefix(joinedText, lastEmitted)

\* the segments of a partial that are not cut to maxPartialSegments
NotLimited(segs) == segs

\* Array(segments.prefix(maxPartialSegments))
Limited(segs) ==
    IF Len(segs) > maxPartialSegments THEN SubSeq(segs, 1, maxPartialSegments)
    ELSE segs

buildSegmentsFromText(text, durationMs, lang) ==
    createSegmentsWithTimestamps(splitIntoSentences(text), durationMs, lang)

\* the segments' texts joined by " " and trimmed
JoinedText(segs) == Trimmed(JoinedBySpace([i \in 1..Len(segs) |-> segs[i].text]))

NoEvent == [kind |-> "none"]

PartModes == {"auto", "en"}

InitPart ==
    /\ InitCoord
    /\ InitSession
    /\ notesStore = NoNotesStore
    /\ rec = NoRec
    /\ waits = NoWaits
    /\ db = NoDb
    /\ calc = NoCalc
    /\ wav = NoWav
    /\ ring = NoRing
    /\ fin = NoFin
    /\ part \in [pc : {"recording"}, isRecording : {TRUE}, languageMode : PartModes,
                 languageLock : {NoLock}, lastEmittedPartialText : {<<>>},
                 isPartialInferenceRunning : {FALSE}, block : {"none"},
                 languageToUse : {"auto"},
                 result : {[error |-> FALSE, text |-> <<>>,
                            detected |-> [language |-> "nil", probability |-> 0]]},
                 calls : {<<>>}, skipped : {"none"}, emitted : {NoEvent},
                 finalCall : {"none"}]

\* a block that returns without running its defer
inFlightLeftSet == TRUE

\* defer { self?.isPartialInferenceRunning = false }
inFlightAfterBlock == FALSE

\* the timer's event handler: processPartialBuffer up to the dispatch
tickDispatch(enough) ==
    /\ part.pc # "stopped"
    /\ part.isRecording
    /\ ~part.isPartialInferenceRunning
    /\ enough
    /\ part' = [part EXCEPT !.isPartialInferenceRunning = TRUE, !.block = "queued",
                            !.calls = <<>>, !.emitted = NoEvent]
    /\ UNCHANGED <<coordVars, sessVars, exceptPart>>

\* the block up to the return of the first recognizer call; every return
\* before it runs the deferred isPartialInferenceRunning = false
blockBegin(snapshotOk, writeOk, raw) ==
    /\ part.block = "queued"
    /\ LET skip == IF ~part.isRecording THEN "notRecording"
                   ELSE IF ~snapshotOk THEN "snapshot"
                   ELSE IF ~writeOk THEN "write"
                   ELSE "none"
           languageToUse == getLanguageForPartial(part.languageLock, part.languageMode)
       IN IF skip # "none"
          THEN part' = [part EXCEPT !.isPartialInferenceRunning = inFlightAfterBlock,
                                    !.block = "none", !.calls = <<>>,
                                    !.skipped = skip, !.emitted = NoEvent]
          ELSE part' = [part EXCEPT !.block = "called",
                                    !.languageToUse = languageToUse,
                                    !.result = transcribe(languageToUse, raw),
                                    !.calls = <<languageToUse>>,
                                    !.skipped = "none", !.emitted = NoEvent]
    /\ UNCHANGED <<coordVars, sessVars, exceptPart>>

\* the block from the first call's return: the forced run, the lock, the
\* emit rule and the deferred isPartialInferenceRunning = false
blockFinish(forcedRaw) ==
    /\ part.block = "called"
    /\ LET first == part.result
           lang == first.detected.language
           tryForced == /\ part.languageMode = "auto"
                        /\ first.text = <<>>
                        /\ ~first.error
                        /\ lang \in {"tr", "en"}
                        /\ first.detected.probability >= 45
           forcedResult == transcribe(lang, forcedRaw)
           useForced == tryForced /\ ~forcedResult.error /\ forcedResult.text # <<>>
           result == IF useForced THEN forcedResult ELSE first
           finalText == result.text
           finalLang == IF useForced THEN lang ELSE part.languageToUse
           languageLock == IF useForced /\ first.detected.probability >= 80
                           THEN IF lang = "tr" THEN "auto_tr" ELSE "auto_en"
                           ELSE part.languageLock
           calls == IF tryForced THEN <<lang>> ELSE <<>>
           built == buildSegmentsFromText(
                           finalText, rollingWindowSec * 1000,
                           normalizeSegmentLang(
                               IF finalLang = "auto"
                               THEN (IF languageLock = NoLock THEN "en" ELSE languageLock)
                               ELSE finalLang))
           limitedSegments == Limited(built)
           joinedText == JoinedText(limitedSegments)
           eventLanguageLock ==
               IF languageLock # NoLock THEN languageLock
               ELSE IF part.languageMode = "auto" /\ result.detected.language \in {"tr", "en"}
               THEN IF result.detected.language = "tr" THEN "auto_tr" ELSE "auto_en"
               ELSE part.languageMode
       IN IF result.error \/ finalText = <<>>
          THEN part' = [part EXCEPT !.isPartialInferenceRunning = inFlightAfterBlock,
                                    !.block = "none", !.languageLock = languageLock,
                                    !.calls = calls,
                                    !.skipped = IF result.error THEN "error" ELSE "empty",
                                    !.emitted = NoEvent]
          ELSE IF ChangedEnough(joinedText, part.lastEmittedPartialText)
          THEN part' = [part EXCEPT !.isPartialInferenceRunning = inFlightAfterBlock,
                                    !.block = "none", !.languageLock = languageLock,
                                    !.calls = calls, !.skipped = "none",
                                    !.lastEmittedPartialText = joinedText,
                                    !.emitted = [kind |-> "partial",
                                                 segments |-> limitedSegments,
                                                 text |-> joinedText,
                                                 languageLock |-> eventLanguageLock]]
          ELSE part' = [part EXCEPT !.isPartialInferenceRunning = inFlightAfterBlock,
                                    !.block = "none", !.languageLock = languageLock,
                                    !.calls = calls, !.skipped = "unchanged",
                                    !.emitted = NoEvent]
    /\ UNCHANGED <<coordVars, sessVars, exceptPart>>

\* stopRecording: isRecording = false, then the wait for the inference
partStopBegin ==
    /\ part.pc = "recording"
    /\ part' = [part EXCEPT !.pc = "stopping", !.isRecording = FALSE,
                            !.calls = <<>>, !.skipped = "none", !.emitted = NoEvent]
    /\ UNCHANGED <<coordVars, sessVars, exceptPart>>

\* handleStopRecording: the languageLock it passes to stopRecording is the
\* store's languageMode
noteLanguageLock(languageMode) == languageMode

\* stopRecording after the wait: self.languageLock = languageLock, and the
\* language runTranscription will call the recognizer with
partStopEnd(lock, timedOut) ==
    /\ part.pc = "stopping"
    /\ ~part.isPartialInferenceRunning \/ timedOut
    /\ part' = [part EXCEPT !.pc = "stopped", !.languageLock = lock,
                            !.finalCall = LanguageToUse(lock),
                            !.calls = <<>>, !.skipped = "none", !.emitted = NoEvent]
    /\ UNCHANGED <<coordVars, sessVars, exceptPart>>

NextPart ==
    \/ \E enough \in BOOLEAN : tickDispatch(enough)
    \/ \E snapshotOk \in BOOLEAN, writeOk \in BOOLEAN, raw \in RawResults :
           blockBegin(snapshotOk, writeOk, raw)
    \/ \E forcedRaw \in ForcedRaw : blockFinish(forcedRaw)
    \/ partStopBegin
    \/ \E timedOut \in BOOLEAN :
           partStopEnd(noteLanguageLock(part.languageMode), timedOut)

SpecPart == InitPart /\ [][NextPart]_vars

\* ------------------------------------------------------------- SpecFrames
\* the WAV writes of one recording, block by block, and the duration stop
\* returns for it

\* WavFileWriter.init's defaults
channels == 1
bitsPerSample == 16

\* the writes of one recording that are followed
MaxWrites == 2

\* the frame lengths of the buffers the tap delivers
FrameLengths == {1, 16, 17, bufferSize, sampleRate}

\* a writer that counts one byte for each sample
appendedOneBytePerSample(frameCount) == frameCount

\* WavFileWriter.append(samples:): the Data of frameCount Int16 samples, whose
\* count append(data:) adds to dataSize
appendedBytes(frameCount) == frameCount * (bitsPerSample \div 8)

InitFrames ==
    /\ InitCoord
    /\ InitSession
    /\ notesStore = NoNotesStore
    /\ rec = NoRec
    /\ waits = NoWaits
    /\ db = NoDb
    /\ part = NoPart
    /\ wav = NoWav
    /\ ring = NoRing
    /\ fin = NoFin
    /\ calc \in [pc : {"recording"}, totalFramesWritten : {0}, dataSize : {0},
                 writes : {0}, noteExists : BOOLEAN, durationMs : {Null},
                 noteDurationMs : {Null}]

\* the block the tap puts on audioProcessingQueue, lines 271-275: the samples
\* are appended to the writer and counted
writeBlock(frameCount) ==
    /\ calc.pc = "recording"
    /\ calc.writes < MaxWrites
    /\ calc' = [calc EXCEPT !.dataSize = @ + appendedBytes(frameCount),
                            !.totalFramesWritten = @ + frameCount,
                            !.writes = @ + 1]
    /\ UNCHANGED <<coordVars, sessVars, exceptCalc>>

\* stopRecording, lines 466-491: the queue is drained and finish() patches
\* the header with dataSize
finishWav ==
    /\ calc.pc = "recording"
    /\ calc' = [calc EXCEPT !.pc = "recorded"]
    /\ UNCHANGED <<coordVars, sessVars, exceptCalc>>

NextFrames ==
    \/ \E frameCount \in FrameLengths : writeBlock(frameCount)
    \/ finishWav
    \/ stopRecordingDuration
    \/ updateNoteStopInfo

SpecFrames == InitFrames /\ [][NextFrames]_vars

\* ------------------------------------------------------------ SpecMigrate
\* getDatabase over a database file in any state: runMigrations and the
\* repair pass

SCHEMA_VERSION == 4

\* the launches of the app that are followed
MaxOpens == 2

RequiredTables == {"notes", "segments", "note_insights"}

\* the files tried: any user_version up to SCHEMA_VERSION and any subset of
\* the tables; rows that break idx_segments_unique only where segments
\* exists without that index, notes with a NULL languageLock only where
\* notes exists
DatabaseFiles ==
    {d \in [user_version : 0..SCHEMA_VERSION, tables : SUBSET RequiredTables,
            duplicates : BOOLEAN, uniqueIndex : BOOLEAN, nullLocks : BOOLEAN] :
        /\ d.duplicates => ("segments" \in d.tables /\ ~d.uniqueIndex)
        /\ d.uniqueIndex => "segments" \in d.tables
        /\ d.nullLocks => "notes" \in d.tables}

InitMigrate ==
    /\ InitCoord
    /\ InitSession
    /\ notesStore = NoNotesStore
    /\ rec = NoRec
    /\ waits = NoWaits
    /\ part = NoPart
    /\ calc = NoCalc
    /\ wav = NoWav
    /\ ring = NoRing
    /\ fin = NoFin
    /\ \E d \in DatabaseFiles :
          db = [file |-> d, handle |-> FALSE, opens |-> 0, threw |-> FALSE,
                migrated |-> FALSE]

\* repairDatabase: note_insights is recreated when user_version >= 4 and the
\* table is missing
repairDatabase(d) ==
    IF d.user_version >= SCHEMA_VERSION /\ "note_insights" \notin d.tables
    THEN [d EXCEPT !.tables = @ \cup {"note_insights"}]
    ELSE d

\* runMigrations: each step runs when the version read at the start is below
\* its number; a statement on a missing table throws and ends the function
\* with what ran before it kept. The result is the file and whether it threw.
runMigrations(d) ==
    LET currentVersion == d.user_version
        s1 == IF currentVersion < 1
              THEN [d EXCEPT !.tables = @ \cup {"notes", "segments"}]
              ELSE d
        throws2 == currentVersion < 2 /\ "segments" \notin s1.tables
        s2 == IF currentVersion < 2
              THEN [s1 EXCEPT !.duplicates = FALSE, !.uniqueIndex = TRUE]
              ELSE s1
        throws3 == currentVersion < 3 /\ "notes" \notin s2.tables
        s3 == IF currentVersion < 3 THEN [s2 EXCEPT !.nullLocks = FALSE] ELSE s2
        s4 == IF currentVersion < 4
              THEN [s3 EXCEPT !.tables = @ \cup {"note_insights"}]
              ELSE s3
        s5 == IF currentVersion < SCHEMA_VERSION
              THEN [s4 EXCEPT !.user_version = SCHEMA_VERSION]
              ELSE s4
    IN  IF throws2 THEN [file |-> s1, threw |-> TRUE]
        ELSE IF throws3 THEN [file |-> s2, threw |-> TRUE]
        ELSE [file |-> repairDatabase(s5), threw |-> FALSE]

\* getDatabase: the first call of a launch opens the file and runs the
\* migrations; db is assigned before they run, so it stays set when they
\* throw, and every later call returns it as it is
getDatabase ==
    /\ db.opens < MaxOpens \/ db.handle
    /\ IF db.handle
       THEN db' = [db EXCEPT !.threw = FALSE, !.migrated = FALSE]
       ELSE LET r == runMigrations(db.file) IN
            db' = [db EXCEPT !.file = r.file, !.handle = TRUE,
                             !.opens = @ + 1, !.threw = r.threw,
                             !.migrated = TRUE]
    /\ UNCHANGED <<coordVars, sessVars, exceptDb>>

\* the app ends: the next launch starts with db = null
relaunch ==
    /\ db.handle
    /\ db.opens < MaxOpens
    /\ db' = [db EXCEPT !.handle = FALSE, !.threw = FALSE, !.migrated = FALSE]
    /\ UNCHANGED <<coordVars, sessVars, exceptDb>>

NextMigrate ==
    \/ getDatabase
    \/ relaunch

SpecMigrate == InitMigrate /\ [][NextMigrate]_vars

\* --------------------------------------------------------------- SpecWait
\* waitForFinal's promises against the final events, the timeouts and
\* destroy, for one note and the session gate's inputs

\* the promises waitForFinal returns that are followed
MaxPromises == 2

InitWait ==
    /\ store = initialState
    /\ insertedFinalKeys = {}
    /\ lastActiveSessionId = Null
    /\ lastActiveNoteId = Null
    /\ notes = OneNote
    /\ segments = EmptyBag
    /\ deletedNotes = {}
    /\ last = NoOp
    /\ staleDropped = Null
    /\ InitSession
    /\ InitObj

\* waitForFinal: a resolver pending under the key is rejected and deleted,
\* then a new promise is returned with its timeout armed and its resolver set
\* in the map
waitForFinal(n, s) ==
    LET key == ResolverKey(n, s)
        existing == PendingAt(waits, key)
        rejected == IF existing = 0 THEN waits.promises
                    ELSE [waits.promises EXCEPT
                            ![existing].timer = FALSE,
                            ![existing].calls = Append(@, "superseded")]
        new == Len(waits.promises) + 1
    IN
    /\ Len(waits.promises) < MaxPromises
    /\ waits' = [waits EXCEPT
                   !.promises = Append(rejected,
                                       [noteId |-> n, sessionId |-> s,
                                        timer |-> TRUE, calls |-> <<>>,
                                        event |-> <<>>]),
                   !.pending = {e \in @ : e[1] # key} \cup {<<key, new>>}]
    /\ last' = NoOp
    /\ UNCHANGED <<store, insertedFinalKeys, lastActiveSessionId,
                   lastActiveNoteId, notes, segments, deletedNotes, staleDropped>>
    /\ UNCHANGED <<sessVars, exceptWaits>>

\* the setTimeout callback of promise i, which runs unless clearTimeout was
\* called: the key is deleted from the map and the promise rejected
timeoutFires(i) ==
    /\ i \in 1..Len(waits.promises)
    /\ waits.promises[i].timer
    /\ LET key == ResolverKey(waits.promises[i].noteId, waits.promises[i].sessionId)
       IN  waits' = [waits EXCEPT
                       !.pending = {e \in @ : e[1] # key},
                       !.promises[i].timer = FALSE,
                       !.promises[i].calls = Append(@, "timeout")]
    /\ last' = NoOp
    /\ UNCHANGED <<store, insertedFinalKeys, lastActiveSessionId,
                   lastActiveNoteId, notes, segments, deletedNotes, staleDropped>>
    /\ UNCHANGED <<sessVars, exceptWaits>>

\* destroy: every resolver in the map is rejected with its timeout cleared,
\* the map and the dedupe set are cleared, the listeners removed
destroy ==
    /\ waits' = [waits EXCEPT
                   !.promises =
                       [i \in 1..Len(@) |->
                          IF \E e \in waits.pending : e[2] = i
                          THEN [@[i] EXCEPT !.timer = FALSE,
                                            !.calls = Append(@, "destroyed")]
                          ELSE @[i]],
                   !.pending = {},
                   !.subscribed = FALSE]
    /\ insertedFinalKeys' = {}
    /\ last' = NoOp
    /\ staleDropped' = Null
    /\ UNCHANGED <<store, lastActiveSessionId, lastActiveNoteId, notes,
                   segments, deletedNotes>>
    /\ UNCHANGED <<sessVars, exceptWaits>>

\* initialize: the listeners are added unless they are there
initialize ==
    /\ ~waits.subscribed
    /\ waits' = [waits EXCEPT !.subscribed = TRUE]
    /\ last' = NoOp
    /\ UNCHANGED <<store, insertedFinalKeys, lastActiveSessionId,
                   lastActiveNoteId, notes, segments, deletedNotes, staleDropped>>
    /\ UNCHANGED <<sessVars, exceptWaits>>

\* the sessions of SpecWait: the first one and the newest one
WaitSessions == {1, MaxSession}

NextWait ==
    \/ \E s \in WaitSessions : setSessionId(s)
    \/ reset
    \/ \E n \in OneNote, s \in WaitSessions : beginSession(n, s)
    \/ \E n \in OneNote, s \in WaitSessions : waitForFinal(n, s)
    \/ \E i \in 1..MaxPromises : timeoutFires(i)
    \/ destroy
    \/ initialize
    \/ \E ev \in AsrFinalEvent(OneNote, GateSegLists) :
            ev.sessionId \in WaitSessions /\ waits.subscribed /\ handleFinal(ev)

SpecWait == InitWait /\ [][NextWait]_vars

\* --------------------------------------------------------------- SpecLate
\* the tap callbacks, the blocks of audioProcessingQueue and stopRecording
\* across recordings, with the writer each block captured. A callback runs
\* on the audio thread: stopRecording does not wait for one that has passed
\* its guard.

\* the tap callbacks that are followed
MaxCallbacks == 3

InitLate ==
    /\ InitCoord
    /\ InitSession
    /\ notesStore = NoNotesStore
    /\ waits = NoWaits
    /\ db = NoDb
    /\ part = NoPart
    /\ calc = NoCalc
    /\ wav = NoWav
    /\ ring = NoRing
    /\ fin = NoFin
    /\ \E permission \in {"undetermined", "granted"} :
          rec = [isRecording |-> FALSE, starts |-> 0, setup |-> FALSE,
                 recordPermission |-> permission, inMethod |-> FALSE,
                 wavWriter |-> 0, tap |-> 0, stopPc |-> "idle",
                 inFlight |-> EmptyBag, queue |-> <<>>, finished |-> {},
                 appended |-> {}, late |-> {}, callbacks |-> 0]

\* startRecording, lines 160-171: isRecording is set before the permission
\* callback runs. With the permission granted the callback runs inside
\* startRecording, on the module's method queue, which stopRecording waits
\* for; with it undetermined the callback runs later, on another thread.
startRecordingBegin ==
    /\ rec.stopPc = "idle"
    /\ ~rec.inMethod
    /\ ~rec.isRecording
    /\ ~rec.setup
    /\ rec.starts < MaxStarts
    /\ rec' = [rec EXCEPT !.isRecording = TRUE, !.starts = @ + 1, !.setup = TRUE,
                          !.inMethod = (rec.recordPermission = "granted")]
    /\ UNCHANGED <<coordVars, sessVars, exceptRec>>

\* the permission callback, lines 173-207, and setupAudioEngine: a new
\* WavFileWriter, the tap installed with a block that captures it
startRecordingSetup ==
    /\ rec.setup
    /\ rec' = [rec EXCEPT !.setup = FALSE, !.wavWriter = rec.starts,
                          !.tap = rec.starts, !.inMethod = FALSE,
                          !.recordPermission = "granted"]
    /\ UNCHANGED <<coordVars, sessVars, exceptRec>>

\* the tap block, lines 251-268: the guard on isRecording, the conversion and
\* the append to pcmBuffer
tapCallbackBegin ==
    /\ rec.tap # 0
    /\ rec.isRecording
    /\ rec.callbacks < MaxCallbacks
    /\ rec' = [rec EXCEPT !.inFlight = @ (+) SetToBag({rec.tap}),
                          !.callbacks = @ + 1]
    /\ UNCHANGED <<coordVars, sessVars, exceptRec>>

\* the tap block, line 271: the write is put on audioProcessingQueue with the
\* writer the block captured
tapCallbackEnqueue(w) ==
    /\ BagIn(w, rec.inFlight)
    /\ rec' = [rec EXCEPT !.inFlight = @ (-) SetToBag({w}),
                          !.queue = Append(@, w)]
    /\ UNCHANGED <<coordVars, sessVars, exceptRec>>

\* a block that appends whatever isRecording is
guardAlwaysPasses(isRecording) == TRUE

\* the guard of the queued block, line 272
guardIsRecording(isRecording) == isRecording

\* the first block of audioProcessingQueue, lines 272-275: it appends to its
\* writer when isRecording is true
queuedWrite ==
    /\ rec.queue # <<>>
    /\ LET w == Head(rec.queue) IN
       rec' = [rec EXCEPT
                 !.queue = Tail(@),
                 !.appended = IF guardIsRecording(rec.isRecording)
                              THEN @ \cup {w} ELSE @,
                 !.late = IF guardIsRecording(rec.isRecording) /\ w \in rec.finished
                          THEN @ \cup {w} ELSE @]
    /\ UNCHANGED <<coordVars, sessVars, exceptRec>>

\* stopRecording, lines 462-476: isRecording cleared, the tap removed
stopRecordingBegin ==
    /\ rec.stopPc = "idle"
    /\ ~rec.inMethod
    /\ rec.isRecording
    /\ rec' = [rec EXCEPT !.isRecording = FALSE, !.tap = 0, !.stopPc = "draining"]
    /\ UNCHANGED <<coordVars, sessVars, exceptRec>>

\* stopRecording, lines 480-492: audioProcessingQueue.sync returns once the
\* blocks queued before it have run; the writer, if there is one, is
\* finished and wavWriter set to nil
stopRecordingFinish ==
    /\ rec.stopPc = "draining"
    /\ rec.queue = <<>>
    /\ rec' = [rec EXCEPT !.stopPc = "idle",
                          !.finished = IF rec.wavWriter # 0
                                       THEN @ \cup {rec.wavWriter} ELSE @,
                          !.wavWriter = 0]
    /\ UNCHANGED <<coordVars, sessVars, exceptRec>>

NextLate ==
    \/ startRecordingBegin
    \/ startRecordingSetup
    \/ tapCallbackBegin
    \/ \E w \in 1..MaxStarts : tapCallbackEnqueue(w)
    \/ queuedWrite
    \/ stopRecordingBegin
    \/ stopRecordingFinish

SpecLate == InitLate /\ [][NextLate]_vars

\* ------------------------------------------------------------- SpecDelete
\* useNotesStore.deleteNote against the final events of the note's
\* recordings. JavaScript runs one task at a time: the database delete is a
\* microtask of the task that calls deleteNote, the rest of deleteNote runs
\* once the audio files are deleted, and a final event is a task of its own.

\* useNotesStore.deleteNote up to its await: the microtask runs
\* deleteNoteRepo, deleteAudioFiles is under way
storeDeleteNote(n) ==
    /\ notesStore.deleting = Null
    /\ deleteNoteRows(n)
    /\ last' = NoOp
    /\ notesStore' = [notesStore EXCEPT !.deleting = n]
    /\ UNCHANGED exceptNotesStore

\* useNotesStore.deleteNote after its await: the list is read again, or
\* deleteAudioFiles has thrown and the error is thrown on
storeDeleteNoteDone(filesDeleted) ==
    /\ notesStore.deleting # Null
    /\ notesStore' = [notes |-> IF filesDeleted THEN notes ELSE notesStore.notes,
                      deleting |-> Null]
    /\ last' = NoOp
    /\ UNCHANGED <<store, insertedFinalKeys, lastActiveSessionId,
                   lastActiveNoteId, notes, segments, deletedNotes, staleDropped>>
    /\ UNCHANGED <<sessVars, exceptNotesStore>>

\* loadNotes: the list is read from the database
loadNotes ==
    /\ notesStore.notes # notes
    /\ notesStore' = [notesStore EXCEPT !.notes = notes]
    /\ last' = NoOp
    /\ UNCHANGED <<store, insertedFinalKeys, lastActiveSessionId,
                   lastActiveNoteId, notes, segments, deletedNotes, staleDropped>>
    /\ UNCHANGED <<sessVars, exceptNotesStore>>

NextDelete ==
    \/ \E s \in SessionIds : setSessionId(s)
    \/ reset
    \/ \E n \in OneNote, s \in SessionIds : beginSession(n, s)
    \/ \E n \in NoteIds : insertNote(n)
    \/ \E ev \in AsrFinalEvent(NoteIds, OneSegList) :
            ev.noteId \in CreatedNotes /\ handleFinal(ev)
    \/ \E n \in NoteIds : storeDeleteNote(n)
    \/ \E filesDeleted \in BOOLEAN : storeDeleteNoteDone(filesDeleted)
    \/ loadNotes

SpecDelete == Init /\ [][NextDelete]_vars

\* ================================================================ claims
\* some row has more copies after the step than before it
RowsAdded ==
    \E r \in BagToSet(segments') : CopiesIn(r, segments') > CopiesIn(r, segments)

\* the rows a final event's segments stand for
EventRows(noteId, segs) ==
    {SegmentRow(noteId, FinalSegment(segs[i])) : i \in 1..Len(segs)}

\* no two segments of the list share (startMs, endMs)
DistinctKeys(segs) ==
    \A i, j \in 1..Len(segs) :
        i # j => <<segs[i].startMs, segs[i].endMs>> # <<segs[j].startMs, segs[j].endMs>>

\* C1: a step adds a row to segments only when it is handleFinal handling a
\* final event that passes the session gate: the store holds a live
\* sessionId equal to the event's, or the store holds none and the event's
\* sessionId and noteId equal lastActiveSessionId and lastActiveNoteId.
\* Every other final event, after any sequence of operations, adds no row.
C1_InsertOnlyThroughGate ==
    [][RowsAdded =>
          /\ last'.op = "final"
          /\ IF store.sessionId # Null
             THEN last'.sessionId = store.sessionId
             ELSE /\ last'.sessionId = lastActiveSessionId
                  /\ last'.noteId = lastActiveNoteId]_vars

\* a late final inserted its row through lastActive* after the store was
\* reset, next to the row of another session
C1_Witness ==
    /\ last.op = "final"
    /\ last.inserted = 1
    /\ store.sessionId = Null
    /\ BagCardinality(segments) = 2

\* C2: a final whose sessionId differs from the store's live sessionId is
\* dropped (no row, no dedupe key, lastActive* untouched), and the final of
\* the live session, handled on a fresh dedupe set for a note without rows,
\* has every segment inserted.
C2_StaleDroppedOwnInserted ==
    [][last'.op = "final" =>
          /\ (store.sessionId # Null /\ last'.sessionId # store.sessionId)
                => /\ segments' = segments
                   /\ insertedFinalKeys' = insertedFinalKeys
                   /\ lastActiveSessionId' = lastActiveSessionId
                   /\ lastActiveNoteId' = lastActiveNoteId
          /\ (/\ store.sessionId # Null
              /\ last'.sessionId = store.sessionId
              /\ last'.noteId \in notes
              /\ insertedFinalKeys = {}
              /\ RowsOfNote(segments, last'.noteId) = {})
                => /\ RowsOfNote(segments', last'.noteId)
                        = EventRows(last'.noteId, last'.segments)
                   /\ \A n \in NoteIds \ {last'.noteId} :
                        RowsOfNote(segments', n) = RowsOfNote(segments, n)]_vars

\* session 2 is live, the final of session 1 was dropped while it was, note 1
\* has no row, and the final of session 2 inserted its row for note 2
C2_Witness ==
    /\ store.sessionId = 2
    /\ staleDropped = 1
    /\ 1 \in notes
    /\ RowsOfNote(segments, 1) = {}
    /\ last.op = "final"
    /\ last.sessionId = 2
    /\ last.noteId = 2
    /\ last.inserted = 1

\* C3: handlePartial leaves partialSegments and languageLock as they are when
\* the store has no live sessionId, or its sessionId differs from the
\* event's, or its noteId differs from the event's.
C3_PartialGated ==
    [][(/\ last'.op = "partial"
        /\ \/ store.sessionId = Null
           \/ last'.sessionId # store.sessionId
           \/ last'.noteId # store.noteId)
          => /\ store'.partialSegments = store.partialSegments
             /\ store'.languageLock = store.languageLock]_vars

\* a newer session is live with one partial segment of its own, and a partial
\* event of another session carrying two segments has just been dropped
C3_Witness ==
    /\ last.op = "partial"
    /\ store.sessionId # Null
    /\ last.sessionId # store.sessionId
    /\ last.noteId = store.noteId
    /\ Len(last.segments) = 2
    /\ Len(store.partialSegments) = 1
    /\ store.languageLock = NoLock

\* C4: every row of segments has isFinal = 1; handlePartial never changes
\* the segments table; only handleFinal adds rows.
C4_OnlyFinalRows ==
    [][/\ \A r \in BagToSet(segments') : r.isFinal = 1
       /\ last'.op = "partial" => segments' = segments
       /\ RowsAdded => last'.op = "final"]_vars

\* an accepted partial event put its segments in the store while the table
\* holds a row
C4_Witness ==
    /\ last.op = "partial"
    /\ last.accepted
    /\ store.partialSegments # <<>>
    /\ segments # EmptyBag

\* the dedupe keys of a final event's segments
EventKeys(noteId, segs) == {FinalKey(noteId, segs[i]) : i \in 1..Len(segs)}

\* the segments of a final event as handleFinal would hand them to
\* insertSegments if none were deduped
AllFinal(segs) == [i \in 1..Len(segs) |-> FinalSegment(segs[i])]

C7_ResetAfterInsert ==
    [][(last'.op = "final" /\ RowsAdded) => insertedFinalKeys' = {}]_vars

\* C7 as the code has it: handleFinal never removes a key from
\* insertedFinalKeys, and an accepted final leaves the key of each of its
\* segments in the set; a later final that passes the gate has each segment
\* whose key is not in the set handed to insertSegments, so its row is in the
\* table afterwards when the note exists (inserted now, or skipped because
\* its (noteId, startMs, endMs) is taken).
C7_KeysKeptUntilResetSession ==
    [][last'.op = "final" =>
          /\ insertedFinalKeys \subseteq insertedFinalKeys'
          /\ last'.accepted
                => EventKeys(last'.noteId, last'.segments) \subseteq insertedFinalKeys'
          /\ (last'.accepted /\ last'.noteId \in notes)
                => \A i \in 1..Len(last'.segments) :
                      FinalKey(last'.noteId, last'.segments[i]) \notin insertedFinalKeys
                         => \E r \in BagToSet(segments') :
                               UniqueKey(r) = UniqueKey(SegmentRow(last'.noteId,
                                                 FinalSegment(last'.segments[i])))]_vars

\* after a final with SegA and a second one, a third final of the live
\* session carrying SegA and the new SegC inserted one row, and the key of
\* SegA is still in the set
C7_Witness ==
    /\ last.op = "final"
    /\ last.accepted
    /\ last.segments = <<SegA, SegC>>
    /\ last.inserted = 1
    /\ Cardinality(insertedFinalKeys) = 3
    /\ FinalKey(last.noteId, SegB) \in insertedFinalKeys

\* C8: no two rows of segments share (noteId, startMs, endMs), and a final
\* whose segments all have their unique key taken leaves the table as it is
\* and raises no error.
C8_UniqueIndex ==
    [][/\ \A r \in BagToSet(segments') :
             /\ CopiesIn(r, segments') = 1
             /\ \A q \in BagToSet(segments') : UniqueKey(q) = UniqueKey(r) => q = r
       /\ (/\ last'.op = "final"
           /\ last'.accepted
           /\ last'.noteId \in notes
           /\ \A i \in 1..Len(last'.segments) :
                 \E r \in BagToSet(segments) :
                    UniqueKey(r) = UniqueKey(SegmentRow(last'.noteId,
                                                  FinalSegment(last'.segments[i]))))
             => segments' = segments /\ ~last'.threw]_vars

\* SegB passed the dedupe set and was handed to the table that holds SegA at
\* the same times: nothing was inserted and nothing was raised
C8_Witness ==
    /\ last.op = "final"
    /\ last.accepted
    /\ last.segments = <<SegB>>
    /\ last.inserted = 0
    /\ ~last.threw
    /\ FinalKey(last.noteId, SegA) \notin insertedFinalKeys
    /\ RowsOfNote(segments, last.noteId) = EventRows(last.noteId, <<SegA>>)

\* C9: at most one partial inference runs at any time, whatever the timer
\* ticks, also across stopRecording followed by a new startRecording.
C9_NoOverlap == runningBlocks <= 1

\* C10: once the transcription scheduled by a stopRecording that finished
\* the WAV has run, a final event has been emitted for its note, with
\* segments or with segments [] and an error.
C10_FinalAfterStop ==
    \A i \in 1..Len(jobs) : jobs[i].pc = "done" => jobs[i].final # "none"

\* C11: when stopRecording has returned, every block the tap handed to
\* audioProcessingQueue has been written and counted in totalFramesWritten.
C11_NoWriteLost ==
    (~session.audioEngine /\ stopPc = "idle")
        => session.totalFramesWritten = session.taps * bufferSize

U32At(file, pos) ==
    file[pos + 1] + 256 * file[pos + 2] + 65536 * file[pos + 3]
    + 16777216 * file[pos + 4]

\* the Int16 samples a run of bytes holds, low byte first
RECURSIVE SamplesOf(_)
SamplesOf(bytes) ==
    IF Len(bytes) < 2 THEN <<>>
    ELSE LET u == bytes[1] + 256 * bytes[2] IN
         <<IF u >= 32768 THEN u - 65536 ELSE u>>
         \o SamplesOf(SubSeq(bytes, 3, Len(bytes)))

\* C13: after finish(), the header's dataSize field (bytes 40..43) is the
\* file size minus 44, its chunkSize field (bytes 4..7) is the file size
\* minus 8, and the bytes after the 44-byte header are the appended samples'
\* bytes in append order.
C13_WavValid ==
    wav.state = "finished" =>
        /\ U32At(wav.file, 40) = Len(wav.file) - headerSize
        /\ U32At(wav.file, 4) = Len(wav.file) - 8
        /\ Len(wav.file) = headerSize + 2 * Len(wav.samples)
        /\ SubSeq(wav.file, headerSize + 1, Len(wav.file)) = SamplesData(wav.samples)
        /\ SamplesOf(SubSeq(wav.file, headerSize + 1, Len(wav.file))) = wav.samples

\* two appends, <<258, -2>> and then <<0>>, and finish: a 50-byte file
C13_Witness ==
    /\ wav.state = "finished"
    /\ wav.appends = 2
    /\ wav.samples = <<258, -2, 0>>
    /\ Len(wav.file) = 50
    /\ SubSeq(wav.file, 45, 50) = <<2, 1, 254, 255, 0, 0>>

\* the last n elements of a sequence
Suffix(seq, n) == SubSeq(seq, Len(seq) - n + 1, Len(seq))

\* what snapshot(k) may keep of m samples: min(m, k, capacity)
SnapshotLen(m, maxSamples, capacity) ==
    IF maxSamples = <<>> THEN Min(m, capacity)
    ELSE Min(Min(m, maxSamples[1]), capacity)

\* C14: a snapshot is taken with no append under way (it is atomic with
\* respect to append) and returns, oldest first, the most recent samples: the
\* suffix of length min(m, k, capacity) of the m samples x_1..x_m appended
\* before it.
C14_SnapshotRecent ==
    ring.pc # "none" /\ ring.got.op = "getSnapshot" =>
        /\ ring.got.appendPc = "idle"
        /\ ring.got.result =
             Suffix(ring.got.sinceClear,
                    SnapshotLen(Len(ring.got.sinceClear), ring.got.maxSamples,
                                ring.capacity))

\* snapshot(2) after five samples went through a buffer of three
C14_Witness ==
    /\ ring.pc = "idle"
    /\ ring.got.op = "getSnapshot"
    /\ ring.got.maxSamples = <<2>>
    /\ ring.got.sinceClear = <<1, 2, 3, 4, 5>>
    /\ ring.got.result = <<4, 5>>

\* C15: count never exceeds capacity; it is the number of samples appended
\* since the last clear, capped at capacity, so it is capacity from the
\* capacity-th such sample until clear, and 0 right after clear; getCount
\* returns it.
C15_CountInvariant ==
    ring.pc # "none" =>
        /\ ring.count <= ring.capacity
        /\ ring.count = Min(Len(ring.sinceClear), ring.capacity)
        /\ ring.full => ring.count = ring.capacity
        /\ ring.full <=> Len(ring.sinceClear) >= ring.capacity
        /\ (ring.got.op = "clear" /\ ring.sinceClear = <<>>) => ring.count = 0
        /\ ring.got.op = "getCount" => ring.got.result <= ring.capacity

\* two samples, clear, then four more: count stays at capacity
C15_Witness ==
    /\ ring.pc = "idle"
    /\ ring.sinceClear = <<3, 4, 5, 6>>
    /\ ring.full
    /\ ring.count = RingCapacity
    /\ ring.got.op = "getCount"
    /\ ring.got.result = RingCapacity

\* a stop whose final event is still to come: the session is what the
\* specification calls stopping
FinalPending == \E i \in 1..Len(jobs) : jobs[i].pc = "scheduled" /\ jobs[i].durationMs > 0

\* C16: no start is accepted while the session is stopping, so the session's
\* noteId and sessionId stay as they are until the final event is emitted.
C16_NoStartWhileStopping ==
    [][FinalPending =>
          /\ session'.noteId = session.noteId
          /\ session'.sessionId = session.sessionId]_vars

\* C17: the state event emitted by the stop that a final event belongs to
\* reports status stopping.
C17_StoppingBeforeFinal ==
    \A i \in 1..Len(jobs) :
        (jobs[i].pc = "done" /\ jobs[i].final # "none") => jobs[i].state.status = "stopping"

\* the rows of a table that are not rows of note n, with their copies
RowsOfOthers(tbl, n) == [r \in {x \in BagToSet(tbl) : x.noteId # n} |-> tbl[r]]

\* C18: after deleteNote(n) no segment row of n is left, the rows of every
\* other note are as before, the table is smaller by exactly the number of
\* rows n had, and no row of the table names a note that is not in notes.
C18_CascadeDelete ==
    /\ \A r \in BagToSet(segments) : r.noteId \in notes
    /\ last.op = "deleteNote" =>
          /\ RowsOfNote(segments, last.noteId) = {}
          /\ segments = RowsOfOthers(last.before, last.noteId)
          /\ BagCardinality(last.before) - BagCardinality(segments)
               = BagCardinality([r \in RowsOfNote(last.before, last.noteId) |->
                                    last.before[r]])

\* a note with MaxSegs segments deleted while the other note has two: the
\* table goes from MaxSegs + 2 rows to 2
C18_Witness ==
    /\ last.op = "deleteNote"
    /\ Cardinality(RowsOfNote(last.before, last.noteId)) = MaxSegs
    /\ BagCardinality(last.before) = MaxSegs + 2
    /\ BagCardinality(segments) = 2
    /\ \E n \in notes : Cardinality(RowsOfNote(segments, n)) = 2

\* the lang values the segments table may hold (null written "null")
StoredLangs == {"en", "tr", "null"}

\* C19: every lang of a row of the segments table, and of a segment of an
\* emitted final event, is en, tr or null, whatever languageLock the stop
\* was called with and whatever lock the transcription resolved to.
C19_LangNormalized ==
    /\ \A r \in BagToSet(segments) : r.lang \in StoredLangs
    /\ (fin.pc = "emitted" /\ fin.event.kind = "final") =>
          \A i \in 1..Len(fin.event.segments) :
               fin.event.segments[i].lang \in {"en", "tr"}

\* an auto session resolved to auto_tr: its rows are stored with lang tr
C19_Witness ==
    /\ fin.pc = "emitted"
    /\ fin.languageMode = "auto"
    /\ fin.event.kind = "final"
    /\ fin.event.languageLock = "auto_tr"
    /\ last.op = "final"
    /\ last.inserted = 2
    /\ \A r \in BagToSet(segments) : r.lang = "tr"

HelloWorldSentence == <<"H", "e", "l", "l", "o", " ", "w", "o", "r", "l", "d", ".">>
TestSentence ==
    <<"T", "h", "i", "s", " ", "i", "s", " ", "a", " ", "t", "e", "s", "t", ".">>

\* the nominal EN session: stop with lock en, 5000 ms, the recognizer
\* returns "Hello world. This is a test."
NominalEn ==
    /\ fin.pc = "emitted"
    /\ fin.languageMode = "en"
    /\ fin.durationMs = 5000
    /\ fin.modelLoaded
    /\ ~fin.res.error
    /\ fin.res.text = HelloWorldText

\* C20 as stated: the final event of the nominal EN session carries the two
\* segments [0..2500] "Hello world." and [2500..5000] "This is a test.",
\* both with lang en.
C20_NominalHalves ==
    NominalEn =>
        /\ fin.event.kind = "final"
        /\ fin.event.segments =
             <<[startMs |-> 0, endMs |-> 2500, text |-> HelloWorldSentence, lang |-> "en"],
               [startMs |-> 2500, endMs |-> 5000, text |-> TestSentence, lang |-> "en"]>>

\* C20 amended: the final event of the nominal EN session carries exactly
\* the two segments [0..2222] "Hello world." and [2222..4999] "This is a
\* test." (5000 * 12 / 27 and 5000 * 15 / 27, truncated), both with lang en.
C20_NominalProportional ==
    NominalEn =>
        /\ fin.event.kind = "final"
        /\ fin.event.languageLock = "en"
        /\ fin.event.segments =
             <<[startMs |-> 0, endMs |-> 2222, text |-> HelloWorldSentence, lang |-> "en"],
               [startMs |-> 2222, endMs |-> 4999, text |-> TestSentence, lang |-> "en"]>>

\* the nominal EN session's final event delivered and its two rows stored
C20_Witness ==
    /\ NominalEn
    /\ Len(fin.event.segments) = 2
    /\ last.op = "final"
    /\ last.inserted = 2
    /\ BagCardinality(segments) = 2

\* the stub recognizer of the scenario: "" for auto, "the the the the the"
\* for en, "merhaba bu bir test cu~mlesidir" for tr, asked in mode auto
StubScenario ==
    /\ fin.pc = "emitted"
    /\ fin.languageMode = "auto"
    /\ fin.recognizer["auto"] = <<>>
    /\ fin.recognizer["en"] = TheTheText
    /\ fin.recognizer["tr"] = MerhabaText

\* both languages were run and the tr candidate won: lock auto_tr, lang tr
ScoredToTr ==
    /\ fin.runs \in {"both", "forcedThenBoth"}
    /\ fin.trScore > fin.enScore
    /\ fin.event.kind = "final"
    /\ fin.event.languageLock = "auto_tr"
    /\ \A i \in 1..Len(fin.event.segments) : fin.event.segments[i].lang = "tr"

\* C21 as stated: with the stub recognizer in mode auto, whatever language
\* it reports as detected, both languages are run, tr scores higher and the
\* final event has languageLock auto_tr and segment lang tr.
C21_FallbackToTr == StubScenario => ScoredToTr

\* C21 amended: the same when the recognizer reports no language of {en, tr}
\* detected with probability >= 0.45; the scores are 15 for tr and -15 for en.
C21_FallbackToTrUndetected ==
    (StubScenario /\ ~(fin.detected.language \in {"tr", "en"}
                        /\ fin.detected.probability >= 45)) =>
        /\ ScoredToTr
        /\ fin.runs = "both"
        /\ fin.trScore = 15
        /\ fin.enScore = -15
        /\ Len(fin.event.segments) = 1
        /\ fin.event.segments[1].text = MerhabaText

\* the stub scenario with tr detected at 0.44
C21_Witness ==
    /\ StubScenario
    /\ fin.detected = [language |-> "tr", probability |-> 44]
    /\ fin.runs = "both"
    /\ fin.event.languageLock = "auto_tr"

\* no partial inference is queued, running or flagged
NoPartialInference ==
    queuedBlocks = 0 /\ runningBlocks = 0 /\ ~session.isPartialInferenceRunning

\* C22: while the buffer of the one recording has never held minSamples
\* samples, every tick was skipped (no partial inference exists, so no
\* partial event), and the transcription its stop scheduled, once run, has
\* emitted a final event.
C22_ShortRecording ==
    session.pcmCount < minSamples =>
        /\ NoPartialInference
        /\ \A i \in 1..Len(jobs) : jobs[i].pc = "done" => jobs[i].final # "none"

\* the one start of SpecShort failed: nothing was recorded and no stop ran
StartFailed ==
    /\ session.starts = 1
    /\ ~session.audioEngine
    /\ stopPc = "idle"
    /\ jobs = <<>>

\* idle, no timer armed, no partial inference, nothing captured
QuietAfterFailure ==
    /\ currentStatus(session) = "idle"
    /\ session.partialTimer = Null
    /\ \A t \in 1..MaxStarts : ~timers[t].armed
    /\ NoPartialInference
    /\ session.taps = 0

\* C23: a start that fails (permission denied, WAV file not opened, engine
\* not started) leaves the session idle with no timer and no inference, and
\* from then on nothing is scheduled for it: no transcription job, so no
\* final event, and no partial inference.
C23_FailedStartSilent ==
    [][/\ StartFailed => (QuietAfterFailure /\ StartFailed')
       /\ StartFailed' => QuietAfterFailure']_vars

\* a start that failed at the WAV writer, and the model loaded after it
C23_Witness ==
    /\ StartFailed
    /\ session.sessionId # Null
    /\ ~session.wavWriter
    /\ ~session.hasBuffer
    /\ ~session.modelLoading

\* C24: joining the sentences of a text with one space and splitting the
\* result again gives the same list of sentences.
C24_SplitRoundTrip ==
    fin.pc = "resplit" => fin.again = fin.sentences

\* a text of three sentences, one of them ending in a line break, where the
\* joined text differs from the original
C24_Witness ==
    /\ fin.pc = "resplit"
    /\ Len(fin.sentences) = 3
    /\ fin.joined # fin.text
    /\ \E i \in 1..Len(fin.sentences) :
           fin.sentences[i][Len(fin.sentences[i])] = "\n"

\* the file of an open writer: a 44-byte header followed by the appended
\* bytes only, with the given values in the two size fields
OpenFileHas(chunkSize, dataSubchunkSize) ==
    /\ Len(wav.file) = headerSize + wav.dataSize
    /\ SubSeq(wav.file, headerSize + 1, Len(wav.file)) = SamplesData(wav.samples)
    /\ U32At(wav.file, 4) = chunkSize
    /\ U32At(wav.file, 40) = dataSubchunkSize

\* C25 as stated: from construction until finish() the file is a 44-byte
\* placeholder header, whose chunkSize and data subchunk size are both 0,
\* followed by the appended bytes only.
C25_PlaceholderAllZero ==
    wav.state = "open" => OpenFileHas(0, 0)

\* C25: from construction until finish() the file holds nothing of an
\* earlier file: it is a 44-byte placeholder header, whose data subchunk
\* size is 0 and whose chunkSize is 36, followed by the appended bytes only.
C25_PlaceholderHeader ==
    wav.state = "open" => OpenFileHas(36, 0)

\* an open writer with bytes appended, finish() not yet called, whose file
\* is shorter than the earlier recording the path may have held
C25_Witness ==
    /\ wav.state = "open"
    /\ wav.appends = MaxAppends
    /\ wav.dataSize > 0
    /\ Len(wav.file) < Len(EarlierRecording)

\* C26: every final event carries the sessionId of the recording it
\* transcribes, the one the session had when that recording was stopped.
C26_FinalCarriesOwnSession ==
    \A i \in 1..Len(jobs) :
        (jobs[i].pc = "done" /\ jobs[i].final # "none") =>
            jobs[i].sessionId = jobs[i].state.sessionId

\* segment seg of an event for note n is a row of the table
StoredAsRow(n, seg) ==
    \E r \in BagToSet(segments) :
        /\ r.noteId = n
        /\ r.startMs = seg.startMs
        /\ r.endMs = seg.endMs
        /\ r.text = seg.text

\* C27: after handleFinal accepted a final event and its insert did not
\* throw, every segment of the event is a row of segments with the same
\* noteId, startMs, endMs and text.
C27_NoSegmentLost ==
    (last.op = "final" /\ last.accepted /\ ~last.threw) =>
        \A i \in 1..Len(last.segments) : StoredAsRow(last.noteId, last.segments[i])

\* C28: with a live session of a note, a final whose sessionId equals
\* store.sessionId but whose noteId differs from store.noteId inserts no
\* rows.
C28_NoCrossContamination ==
    [][(/\ last'.op = "final"
        /\ store.sessionId # Null
        /\ store.noteId # Null
        /\ last'.sessionId = store.sessionId
        /\ last'.noteId # store.noteId)
          => segments' = segments]_vars

\* C29: every stopRecording call that finalized a recording schedules one
\* runTranscription, and a runTranscription hands at most one event to
\* onAsrFinal: one error event or one event with segments, never both and
\* never two; nothing is emitted before it runs.
C29_AtMostOneFinal ==
    /\ Len(jobs) <= session.starts
    /\ \A i \in 1..Len(jobs) :
           /\ Len(jobs[i].emitted) <= 1
           /\ jobs[i].pc = "scheduled" => jobs[i].emitted = <<>>
           /\ jobs[i].pc = "done" =>
                  jobs[i].emitted = IF jobs[i].final = "none" THEN <<>>
                                    ELSE <<jobs[i].final>>

\* two stopped recordings: the first ended with the error final, the second
\* with the final that carries segments
C29_Witness ==
    /\ Len(jobs) = 2
    /\ jobs[1].pc = "done" /\ jobs[1].emitted = <<"error">>
    /\ jobs[2].pc = "done" /\ jobs[2].emitted = <<"segments">>

\* C30: the segments produced for a sentence list with characters and a
\* durationMs >= 0 are one per sentence, contiguous and ordered: the first
\* startMs is 0, each later startMs equals the previous endMs, and every
\* segment satisfies 0 <= startMs <= endMs <= durationMs.
C30_Contiguous ==
    (fin.pc = "stamped" /\ SumOfCounts(fin.sentences) > 0) =>
        LET segs == fin.segments IN
        /\ Len(segs) = Len(fin.sentences)
        /\ segs[1].startMs = 0
        /\ \A i \in 2..Len(segs) : segs[i].startMs = segs[i - 1].endMs
        /\ \A i \in 1..Len(segs) :
               /\ 0 <= segs[i].startMs
               /\ segs[i].startMs <= segs[i].endMs
               /\ segs[i].endMs <= fin.durationMs
               /\ segs[i].text = fin.sentences[i]

\* three sentences over 55 ms: truncation leaves the last endMs short of the
\* duration and no segment is empty
C30_Witness ==
    /\ fin.pc = "stamped"
    /\ fin.durationMs = 55
    /\ Len(fin.segments) = 3
    /\ fin.segments[3].endMs < fin.durationMs
    /\ \A i \in 1..3 : fin.segments[i].startMs < fin.segments[i].endMs

\* the language a lock stands for
LockedLanguage(lock) == IF lock = "auto_tr" THEN "tr" ELSE "en"

\* C31: once a partial inference has set languageLock to auto_tr or auto_en,
\* every recognizer call a partial tick makes afterwards uses that language,
\* and the lock keeps its value until stopRecording assigns its own.
C31_LockPersists ==
    [][(part.pc \in {"recording", "stopping"} /\ part.languageLock \in {"auto_tr", "auto_en"})
          => /\ part'.pc # "stopped" => part'.languageLock = part.languageLock
             /\ \A i \in 1..Len(part'.calls) :
                    part'.calls[i] = LockedLanguage(part.languageLock)]_vars

\* a tick after the lock to auto_tr has made its recognizer call with tr, and
\* the call returned an empty text
C31_Witness ==
    /\ part.pc = "recording"
    /\ part.languageMode = "auto"
    /\ part.languageLock = "auto_tr"
    /\ part.block = "called"
    /\ part.calls = <<"tr">>
    /\ part.result.text = <<>>
    /\ ~part.result.error

\* C32: in auto mode, when the partial ticks have locked the session to
\* auto_tr or auto_en, the final transcription that stop starts calls the
\* recognizer with the locked language.
C32_FinalUsesLock ==
    [][(/\ part.pc = "stopping"
        /\ part'.pc = "stopped"
        /\ part.languageMode = "auto"
        /\ part.languageLock \in {"auto_tr", "auto_en"})
          => part'.finalCall = LockedLanguage(part.languageLock)]_vars

TickFailures == {"notRecording", "snapshot", "write", "error", "empty"}

\* C34: a step in which a partial tick fails (the session is no longer
\* recording, the snapshot is too short, the scratch WAV is not written, the
\* recognizer returns an error or an empty text) emits no event, leaves
\* isRecording and the session's position as they were, and clears the
\* in-flight flag, so that while the session records the next tick passes
\* processPartialBuffer's guard.
C34_TickFailureLocal ==
    [][(part'.skipped \in TickFailures /\ part.block # "none" /\ part'.block = "none") =>
          /\ part'.emitted = NoEvent
          /\ part'.isRecording = part.isRecording
          /\ part'.pc = part.pc
          /\ part'.lastEmittedPartialText = part.lastEmittedPartialText
          /\ ~part'.isPartialInferenceRunning]_vars

\* after a tick whose scratch WAV could not be written, a later tick has
\* dispatched its inference
C34_Witness ==
    /\ part.skipped = "write"
    /\ part.isRecording
    /\ part.block = "queued"
    /\ part.isPartialInferenceRunning

\* C35: when an inference block takes its snapshot of the buffer, every
\* block of samples the tap has appended to the buffer has already been
\* written to the WAV writer, so the written data contains the snapshot.
C35_WavHoldsSnapshot ==
    [][runningBlocks' > runningBlocks =>
          session.totalFramesWritten = session.taps * bufferSize]_vars

\* the duration the finished file stands for, in whole milliseconds:
\* (dataSize * 8) / (sampleRate * channels * bitsPerSample) seconds
FileDurationMs(dataSize) ==
    (dataSize * 8 * 1000) \div (sampleRate * channels * bitsPerSample)

C37_OpenedComplete ==
    db.opens >= 1 => /\ RequiredTables \subseteq db.file.tables
                     /\ db.file.user_version = SCHEMA_VERSION

\* C37, what holds: an opening that does not throw leaves user_version 4 and
\* note_insights present, and the tables that were present stay present.
C37_OpenedVersion ==
    [][(db'.opens > db.opens /\ ~db'.threw)
          => /\ db'.file.user_version = SCHEMA_VERSION
             /\ "note_insights" \in db'.file.tables
             /\ db.file.tables \subseteq db'.file.tables]_vars

\* C37, second half: opening a file that was opened before changes nothing
\* in it.
C37_OpenAgainNoChange ==
    [][db.opens >= 1 => db'.file = db.file]_vars

\* a file at user_version 4 without notes was opened: notes is still missing
C37_Witness ==
    /\ db.opens = 2
    /\ db.migrated
    /\ ~db.threw
    /\ db.file.user_version = SCHEMA_VERSION
    /\ "notes" \notin db.file.tables
    /\ "note_insights" \in db.file.tables

\* the promises that are not settled
Unsettled == {i \in 1..Len(waits.promises) : waits.promises[i].calls = <<>>}

\* the promises resolved or rejected by the step
SettledByStep ==
    {i \in 1..Len(waits.promises) :
        waits.promises[i].calls = <<>> /\ waits'.promises[i].calls # <<>>}

\* in every state: no promise had resolve or reject called twice, the
\* unsettled promises are those whose resolver is in the map, each with its
\* timeout armed, and no two of them have the same noteId and sessionId
WaitState ==
    /\ \A i \in 1..Len(waits.promises) :
          /\ Len(waits.promises[i].calls) <= 1
          /\ waits.promises[i].timer <=> i \in Unsettled
          /\ i \in Unsettled <=>
                <<ResolverKey(waits.promises[i].noteId,
                              waits.promises[i].sessionId), i>> \in waits.pending
    /\ \A i, j \in Unsettled :
          (/\ waits.promises[i].noteId = waits.promises[j].noteId
           /\ waits.promises[i].sessionId = waits.promises[j].sessionId) => i = j

\* in every step: a promise is resolved only by a final event of its noteId
\* and sessionId that passed the gate, and with that event; a final that
\* passes the gate resolves the unsettled promise of its noteId and
\* sessionId; a final dropped by the gate settles nothing; settled promises
\* stay as they are
WaitStep ==
    /\ \A i \in SettledByStep :
          waits'.promises[i].calls = <<"final">> =>
             /\ last'.op = "final"
             /\ last'.accepted
             /\ last'.noteId = waits.promises[i].noteId
             /\ last'.sessionId = waits.promises[i].sessionId
             /\ waits'.promises[i].event =
                   <<[noteId |-> last'.noteId, sessionId |-> last'.sessionId,
                      segments |-> last'.segments]>>
    /\ (last'.op = "final" /\ last'.accepted) =>
          \A i \in Unsettled :
             (/\ waits.promises[i].noteId = last'.noteId
              /\ waits.promises[i].sessionId = last'.sessionId)
                => waits'.promises[i].calls = <<"final">>
    /\ (last'.op = "final" /\ ~last'.accepted) => waits' = waits
    /\ \A i \in 1..Len(waits.promises) :
          i \notin Unsettled => waits'.promises[i] = waits.promises[i]

\* C38: a promise of waitForFinal is settled at most once and stays pending
\* only with its timeout armed; it is resolved by the first final event of
\* its noteId and sessionId that passes the session gate, and with that
\* event, and is otherwise rejected (timeout, destroy, a newer waitForFinal
\* for the key); a final dropped by the gate resolves nothing; at most one
\* resolver is pending per key.
C38_SettledOnce == [](WaitState) /\ [][WaitStep]_vars

\* a first waitForFinal was superseded by a second one for the same key,
\* which a final event then resolved
C38_Witness ==
    /\ Len(waits.promises) = 2
    /\ waits.promises[1].calls = <<"superseded">>
    /\ waits.promises[2].calls = <<"final">>
    /\ waits.promises[1].sessionId = waits.promises[2].sessionId
    /\ waits.pending = {}

\* C39 as stated: no writer is appended to after its finish().
C39_NoAppendAfterFinish == rec.late = {}

\* C39, what holds: no writer is appended to after its finish() before the
\* next startRecording.
C39_NoAppendBeforeRestart ==
    [][\A w \in rec'.late \ rec.late : rec.starts > w]_vars

\* the first recording was finished and the second one started: a block of
\* the first recording's tap appended to the finished writer
C39_Witness ==
    /\ rec.late = {1}
    /\ rec.starts = 2
    /\ rec.isRecording

\* C40: whatever the order of a note's deleteNote and a late final event for
\* it, no row of segments names a note that is not in notes, neither once
\* both are done nor in between; the final that comes after the delete
\* inserts nothing, the delete that comes after the final removes its rows.
C40_NoOrphanSegments ==
    /\ \A r \in BagToSet(segments) : r.noteId \in notes
    /\ \A n \in deletedNotes : \A r \in BagToSet(segments) : r.noteId # n

\* a final event for a note passed the gate after the note was deleted and
\* deleteNote had returned: its insert threw and the table holds no row of it
C40_Witness ==
    /\ last.op = "final"
    /\ last.accepted
    /\ last.threw
    /\ last.noteId \in deletedNotes
    /\ notesStore.deleting = Null
    /\ last.noteId \notin notesStore.notes
    /\ \E r \in BagToSet(segments) : r.noteId # last.noteId

=============================================================================
